---- MODULE Spec2Model ----
(***************************************************************************)
(* Interactive SAS device verification of the OlmMachine                   *)
(* (crypto/verification_sas.go of mautrix-go, src/unnamed/part_002).       *)
(*                                                                         *)
(* Two machines, X and Y, each with its own transaction store, its         *)
(* verification states, its timer goroutines and the goroutines spawned    *)
(* by the handlers.  Strings are sequences of tokens, so that the code's   *)
(* string concatenation is sequence concatenation.                         *)
(***************************************************************************)
EXTENDS Integers, Sequences, FiniteSets, TLC

\* ------------------------------------------------------------------ bounds
\* inbound messages a machine handles in one run against a peer that repeats its messages
MaxBurst == 4
\* handlers of one machine that run at the same time in that run
MaxBurstPend == 3
\* inbound messages a machine handles in one run
MaxInbound == 3
\* host calls (NewSASVerificationWith, CancelSASVerification) per machine
MaxCalls == 1
\* verification states a machine creates in one run
MaxInst == 2
\* handlers of one machine that run at the same time, each between its lookup and its lock
MaxPend == 2

\* ------------------------------------------------------------ identities
Machines == {"X", "Y"}

Peer(m) == IF m = "X" THEN "Y" ELSE "X"

\* mach.Client.UserID
UserOf(m) == IF m = "X" THEN <<"ux">> ELSE <<"uy">>

\* mach.Client.DeviceID
DeviceOf(m) == IF m = "X" THEN <<"dx">> ELSE <<"dy">>

\* mach.account.SigningKey(): the machine's long-term ed25519 key
SigningKeyOf(m) == IF m = "X" THEN <<"skx">> ELSE <<"sky">>

\* a signing key that is not the peer's (a wrong key held for the peer)
ForgedSigningKey == <<"skforged">>

\* olm.NewSAS(): the n-th ephemeral public key a machine generates
PubKey(m, n) ==
    IF m = "X" THEN <<<<"kx1">>, <<"kx2">>, <<"kx3">>, <<"kx4">>>>[n]
               ELSE <<<<"ky1">>, <<"ky2">>, <<"ky3">>, <<"ky4">>>>[n]

\* an ephemeral key that belongs to neither machine
ForeignKey == <<"kz">>

Txns == {<<"t1">>}

\* event.SASDecimal, event.SASEmoji
SASDecimal == "decimal"
SASEmoji == "emoji"

\* hooks.VerificationMethods(): ordered, contains decimal
MethodLists ==
    {<<SASDecimal>>, <<SASDecimal, SASEmoji>>, <<SASEmoji, SASDecimal>>}

\* event.VerificationCancelCode values
CodeUnknownTransaction == "m.unknown_transaction"
CodeUserMismatch == "m.user_mismatch"
CodeUnknownMethod == "m.unknown_method"
CodeUnexpectedMessage == "m.unexpected_message"
CodeTimeout == "m.timeout"
CodeByUser == "m.user"
CodeCommitmentMismatch == "m.mismatched_commitment"
CodeSASMismatch == "m.mismatched_sas"
CodeKeyMismatch == "m.key_mismatch"

\* VerificationRequestResponse
Responses == {"AcceptRequest", "RejectRequest", "IgnoreRequest"}

\* ------------------------------------------------------------------ state
VARIABLES
    store,     \* store[m]: mach.keyVerificationTransactionState, key -> index of the verificationState
    insts,     \* insts[m]: the verificationState objects of m, with their goroutines
    sent,      \* sent[m]: the to-device messages m has sent, in order
    pend,      \* pend[m]: handlers that looked their state up and wait for its lock
    recvd,     \* recvd[m]: the number n of inbound events m has taken, and the type, sender
               \* and transaction of the last one with the host's answer to it
    calls,     \* calls[m]: number of host calls made on m
    methods,   \* methods[m]: the hooks' VerificationMethods() of m
    held       \* held[m]: the signing key m's device list holds for the peer device

vars == <<store, insts, sent, pend, recvd, calls, methods, held>>

\* ------------------------------------------------------------ pure helpers
\* the store key userID.String() + ":" + transactionID
mapKey(userID, transactionID) == userID \o <<":">> \o transactionID

\* olm.NewUtility().Sha256: a collision-free digest of the input string
Sha256(s) == <<"sha256", s>>

\* canonicaljson.CanonicalJSON(json.Marshal(startEvent)): the fields in key order
CanonicalStart(c) ==
    <<"from_device">> \o c.from_device
        \o <<"hashes">> \o c.hashes
        \o <<"key_agreement_protocols">> \o c.key_agreement_protocols
        \o <<"message_authentication_codes">> \o c.message_authentication_codes
        \o <<"method", c.method>>
        \o <<"short_authentication_string">> \o c.short_authentication_string
        \o <<"transaction_id">> \o c.transaction_id

\* the methods of the hooks that the other device lists, in the hooks' order
commonSASMethods(hookMethods, otherDeviceMethods) ==
    SelectSeq(hookMethods,
              LAMBDA h : \E j \in 1..Len(otherDeviceMethods) : otherDeviceMethods[j] = h)

\* the shared secret of an olm.SAS after SetTheirKey: ECDH gives both sides the same value
Secret(ownKey, theirKey) == {ownKey, theirKey}

\* sas.CalculateMAC(input, info) under the shared secret
CalculateMAC(secret, input, info) == <<"mac", secret, input, info>>

\* id.NewKeyID(id.KeyAlgorithmEd25519, deviceID)
NewKeyID(deviceID) == <<"ed25519:">> \o deviceID

\* the key ids a mac map can hold, in the order sort.StringSlice gives them
KeyIDOrder == <<NewKeyID(<<"dx">>), NewKeyID(<<"dy">>), NewKeyID(<<"master">>)>>

RECURSIVE Join(_)
\* strings.Join(ids, ",")
Join(ids) ==
    IF Len(ids) = 0 THEN <<>>
    ELSE IF Len(ids) = 1 THEN ids[1]
    ELSE ids[1] \o <<",">> \o Join(Tail(ids))

\* sort.Sort(sort.StringSlice(keyIDStrings)); strings.Join(keyIDStrings, ",")
SortedJoin(keys) == Join(SelectSeq(KeyIDOrder, LAMBDA k : k \in keys))

\* getPKAndKeysMAC: <<pubKeyMac, keysMac>>; keys is the set of key ids of the received
\* mac map, or {} for the nil map of the sending side
getPKAndKeysMAC(secret, sendingUser, sendingDevice, receivingUser, receivingDevice, transactionID, signingKey, mainKeyID, keys) ==
    LET sasInfo == <<"MATRIX_KEY_VERIFICATION_MAC">> \o sendingUser \o sendingDevice
                       \o receivingUser \o receivingDevice \o transactionID
        keyIDString == IF keys # {} THEN SortedJoin(keys) ELSE mainKeyID
    IN  <<CalculateMAC(secret, signingKey, sasInfo \o mainKeyID),
          CalculateMAC(secret, keyIDString, sasInfo \o <<"KEY_IDS">>)>>

\* ---------------------------------------------------------------- messages
\* a to-device event as sendToOneDevice sends it
OutMsg(type, toUser, toDevice, transactionID, content) ==
    [type |-> type, to |-> toUser, dev |-> toDevice, txn |-> transactionID, c |-> content]

\* SendSASVerificationCancel
SendSASVerificationCancel(userID, deviceID, transactionID, reason, code) ==
    OutMsg("cancel", userID, deviceID, transactionID, [reason |-> reason, code |-> code])

\* the content SendSASVerificationStart builds
StartContent(m, transactionID, sasMethods) ==
    [from_device |-> DeviceOf(m),
     transaction_id |-> transactionID,
     method |-> "m.sas.v1",
     key_agreement_protocols |-> <<"curve25519-hkdf-sha256">>,
     hashes |-> <<"sha256">>,
     message_authentication_codes |-> <<"hkdf-hmac-sha256">>,
     short_authentication_string |-> sasMethods]

\* SendSASVerificationStart
SendSASVerificationStart(m, toUserID, toDeviceID, transactionID, sasMethods) ==
    OutMsg("start", toUserID, toDeviceID, transactionID,
           StartContent(m, transactionID, sasMethods))

\* SendSASVerificationAccept that puts the public key itself where the commitment goes
SendSASVerificationAccept_KeyInClear(fromUser, startEvent, publicKey, sasMethods) ==
    OutMsg("accept", fromUser, startEvent.from_device, startEvent.transaction_id,
           [method |-> "m.sas.v1",
            key_agreement_protocol |-> "curve25519-hkdf-sha256",
            hash |-> "sha256",
            message_authentication_code |-> "hkdf-hmac-sha256",
            short_authentication_string |-> sasMethods,
            commitment |-> publicKey])

\* SendSASVerificationAccept, for a start event whose method is SAS: the Accept with the
\* commitment to the public key and the canonical form of the start event
SendSASVerificationAccept(fromUser, startEvent, publicKey, sasMethods) ==
    OutMsg("accept", fromUser, startEvent.from_device, startEvent.transaction_id,
           [method |-> "m.sas.v1",
            key_agreement_protocol |-> "curve25519-hkdf-sha256",
            hash |-> "sha256",
            message_authentication_code |-> "hkdf-hmac-sha256",
            short_authentication_string |-> sasMethods,
            commitment |-> Sha256(publicKey \o CanonicalStart(startEvent))])

\* SendSASVerificationKey
SendSASVerificationKey(userID, deviceID, transactionID, key) ==
    OutMsg("key", userID, deviceID, transactionID, [key |-> key])

\* SendSASVerificationMAC: the MAC of this device's signing key and of its key id list
SendSASVerificationMAC(m, userID, deviceID, transactionID, secret) ==
    LET keyID == NewKeyID(DeviceOf(m))
        macs == getPKAndKeysMAC(secret, UserOf(m), DeviceOf(m), userID, deviceID,
                                transactionID, SigningKeyOf(m), keyID, {})
    IN  OutMsg("mac", userID, deviceID, transactionID,
               [keys |-> macs[2], mac |-> [k \in {keyID} |-> macs[1]]])

\* the event a handler of the receiving machine gets for a message sent by machine m
Inbound(m, out) == [type |-> out.type, user |-> UserOf(m), txn |-> out.txn, c |-> out.c]

\* --------------------------------------------------------- verification state
\* hooks.OnCancel(cancelledByUs, reason, reasonCode), as the hooks see it
OnCancel(cancelledByUs, reason, code) ==
    [hook |-> "OnCancel", cancelledByUs |-> cancelledByUs, reason |-> reason, code |-> code]

\* hooks.OnSuccess()
OnSuccess == [hook |-> "OnSuccess", cancelledByUs |-> FALSE, reason |-> <<>>, code |-> ""]

\* GetOrFetchDevice: the identity m holds for the peer's device
DeviceIdentity(m) ==
    [UserID |-> UserOf(Peer(m)), DeviceID |-> DeviceOf(Peer(m)), SigningKey |-> held[m]]

\* a new verificationState: the fields of the struct; timer, the state of the context of
\* its timer goroutine; sasGo, the state of the goroutine that calls VerifySASMatch, with
\* the arguments of GetVerificationSAS and the answers of VerifySASMatch; macGo, the Mac
\* events whose goroutines wait for sasMatched; judged, the match results those goroutines
\* took with their events; late, whether a handler took a message as valid after the
\* deadline had passed; notes, the calls of the hooks; trust, the number of writes of
\* TrustStateVerified; unsent, the messages whose send returned an error
NewVerState(transactionID, otherDevice, initiatedByUs, ownKey) ==
    [txn |-> transactionID,
     otherDevice |-> otherDevice,
     initiatedByUs |-> initiatedByUs,
     verificationStarted |-> ~initiatedByUs,
     keyReceived |-> FALSE,
     sasMatched |-> <<>>,
     commitment |-> <<>>,
     startEventCanonical |-> <<>>,
     chosenSASMethod |-> "",
     ownKey |-> ownKey,
     theirKey |-> <<>>,
     timer |-> "unset",
     sasGo |-> "none",
     sasArgs |-> <<>>,
     verified |-> <<>>,
     macGo |-> <<>>,
     judged |-> <<>>,
     late |-> FALSE,
     notes |-> <<>>,
     trust |-> 0,
     unsent |-> <<>>]

\* verState.extendTimeout(): cancels the timer's context; no effect on a context that is
\* already done (deadline exceeded or cancelled before)
extendTimeout(r) == [r EXCEPT !.timer = IF @ = "armed" THEN "canceled" ELSE @]

\* the state after a handler took a message as valid, r0 being the state it found
Valid(r0, r) == [r EXCEPT !.late = @ \/ r0.timer = "expired"]

\* the record with one more hook notification
Notify(r, n) == [r EXCEPT !.notes = Append(@, n)]

\* the store without a key: keyVerificationTransactionState.Delete
Delete(s, key) == [k \in DOMAIN s \ {key} |-> s[k]]

\* the store with a key set: the storing half of LoadOrStore
Store(s, key, i) == [k \in DOMAIN s \cup {key} |-> IF k = key THEN i ELSE s[k]]

\* the sequence without its n-th element
Without(q, n) == SubSeq(q, 1, n - 1) \o SubSeq(q, n + 1, Len(q))

\* m takes an inbound event, the host answering resp if it is asked
Take(m, msg, resp) ==
    recvd' = [recvd EXCEPT ![m] = [n |-> @.n + 1,
                                   last |-> [type |-> msg.type, user |-> msg.user,
                                             txn |-> msg.txn],
                                   resp |-> resp]]

\* the number of the next ephemeral key of m
NextKey(m) ==
    Len(insts[m]) + Cardinality({n \in 1..Len(pend[m]) : pend[m][n].kind = "new"}) + 1

\* the state after construction of both machines: nothing stored, nothing sent
InitCommon ==
    /\ store = [m \in Machines |-> <<>>]
    /\ insts = [m \in Machines |-> <<>>]
    /\ sent = [m \in Machines |-> <<>>]
    /\ pend = [m \in Machines |-> <<>>]
    /\ recvd = [m \in Machines |-> [n |-> 0, last |-> [type |-> "none", user |-> <<>>, txn |-> <<>>],
                                     resp |-> ""]]
    /\ calls = [m \in Machines |-> 0]

\* machine X with hooks for both methods; its peer is the environment, which sends the
\* method lists of EnvStarts and EnvAccepts
Init ==
    /\ InitCommon
    /\ methods = [m \in Machines |-> IF m = "X" THEN <<SASEmoji, SASDecimal>>
                                                 ELSE <<SASDecimal>>]
    /\ held = [m \in Machines |-> SigningKeyOf(Peer(m))]

\* ------------------------------------------------------------- host calls
\* NewSASVerificationWith up to the LoadOrStore: the state is built under its lock, the
\* Start is sent and its canonical form kept
NewSASVerificationWith(m, transactionID) ==
    /\ calls[m] < MaxCalls
    /\ NextKey(m) <= MaxInst
    /\ LET device == DeviceIdentity(m)
           start == SendSASVerificationStart(m, device.UserID, device.DeviceID,
                                             transactionID, methods[m])
           verState == [NewVerState(transactionID, device, TRUE, PubKey(m, NextKey(m)))
                           EXCEPT !.startEventCanonical = CanonicalStart(start.c)]
       IN  /\ sent' = [sent EXCEPT ![m] = Append(@, start)]
           /\ pend' = [pend EXCEPT ![m] = Append(@, [kind |-> "new", verState |-> verState])]
    /\ calls' = [calls EXCEPT ![m] = @ + 1]
    /\ UNCHANGED <<store, insts, recvd, methods, held>>

\* NewSASVerificationWith from the LoadOrStore on: the state is stored and its timer
\* armed, or the call fails with "Transaction already exists"
NewSASVerificationStore(m, n) ==
    /\ n \in 1..Len(pend[m])
    /\ pend[m][n].kind = "new"
    /\ LET verState == pend[m][n].verState
           key == mapKey(verState.otherDevice.UserID, verState.txn)
           loaded == key \in DOMAIN store[m]
       IN  /\ store' = IF loaded THEN store
                       ELSE [store EXCEPT ![m] = Store(@, key, Len(insts[m]) + 1)]
           /\ insts' = IF loaded THEN insts
                       ELSE [insts EXCEPT ![m] = Append(@, [verState EXCEPT !.timer = "armed"])]
    /\ pend' = [pend EXCEPT ![m] = Without(@, n)]
    /\ UNCHANGED <<sent, recvd, calls, methods, held>>

\* ------------------------------------------------------------------ timer
\* the deadline of the timer's context passes: timeoutCtx.Err() becomes DeadlineExceeded
TimerExpire(m, i) ==
    /\ i \in 1..Len(insts[m])
    /\ insts[m][i].timer = "armed"
    /\ insts' = [insts EXCEPT ![m][i].timer = "expired"]
    /\ UNCHANGED <<store, sent, pend, recvd, calls, methods, held>>

\* timeoutAfterBody that leaves the entry in the store when it cancels
timeoutAfterBody_KeepsEntry(r, s) ==
    LET mapKeyOfTimer == mapKey(r.otherDevice.UserID, r.txn)
    IN  IF mapKeyOfTimer \notin DOMAIN s
        THEN [r |-> [r EXCEPT !.timer = "stopped"], s |-> s, out |-> <<>>]
        ELSE IF r.timer = "expired"
        THEN [r |-> Notify([r EXCEPT !.timer = "stopped"],
                           OnCancel(TRUE, <<"Timed out">>, CodeTimeout)),
              s |-> s,
              out |-> <<SendSASVerificationCancel(r.otherDevice.UserID, r.otherDevice.DeviceID,
                                                  r.txn, <<"Timed out">>, CodeTimeout)>>]
        ELSE [r |-> [r EXCEPT !.timer = "armed"], s |-> s, out |-> <<>>]

\* what the goroutine of timeoutAfter does once its context is done and it holds the lock:
\* [r: the state, s: the store, out: the messages sent]
timeoutAfterBody(r, s) ==
    LET mapKeyOfTimer == mapKey(r.otherDevice.UserID, r.txn)
    IN  IF mapKeyOfTimer \notin DOMAIN s
        THEN [r |-> [r EXCEPT !.timer = "stopped"], s |-> s, out |-> <<>>]
        ELSE IF r.timer = "expired"
        THEN [r |-> Notify([r EXCEPT !.timer = "stopped"],
                           OnCancel(TRUE, <<"Timed out">>, CodeTimeout)),
              s |-> Delete(s, mapKeyOfTimer),
              out |-> <<SendSASVerificationCancel(r.otherDevice.UserID, r.otherDevice.DeviceID,
                                                  r.txn, <<"Timed out">>, CodeTimeout)>>]
        ELSE [r |-> [r EXCEPT !.timer = "armed"], s |-> s, out |-> <<>>]

\* one round of the loop of the goroutine of timeoutAfter
timeoutAfter(m, i) ==
    /\ i \in 1..Len(insts[m])
    /\ insts[m][i].timer \in {"expired", "canceled"}
    /\ LET res == timeoutAfterBody(insts[m][i], store[m])
       IN  /\ insts' = [insts EXCEPT ![m][i] = res.r]
           /\ store' = [store EXCEPT ![m] = res.s]
           /\ sent' = [sent EXCEPT ![m] = @ \o res.out]
    /\ UNCHANGED <<pend, recvd, calls, methods, held>>

\* ------------------------------------------------------------------ Start
\* actuallyStartVerification that sends its Key right after its Accept
actuallyStartVerification_SendsKey(m, userID, content, otherDevice, resp, s, ownKey, index) ==
    LET sasMethods == commonSASMethods(methods[m], content.short_authentication_string)
        key == mapKey(userID, content.transaction_id)
        verState == [NewVerState(content.transaction_id, otherDevice, FALSE, ownKey)
                        EXCEPT !.chosenSASMethod = sasMethods[1], !.timer = "armed"]
    IN  IF resp = "AcceptRequest"
        THEN IF Len(sasMethods) = 0
             THEN [s |-> s, new |-> <<>>,
                   out |-> <<SendSASVerificationCancel(otherDevice.UserID, otherDevice.DeviceID,
                                 content.transaction_id, <<"No common SAS methods">>,
                                 CodeUnknownMethod)>>]
             ELSE IF key \in DOMAIN s
             THEN [s |-> s, new |-> <<>>,
                   out |-> <<SendSASVerificationCancel(otherDevice.UserID, otherDevice.DeviceID,
                                 content.transaction_id, <<"Transaction already exists">>,
                                 CodeUnexpectedMessage)>>]
             ELSE [s |-> Store(s, key, index), new |-> <<verState>>,
                   out |-> <<SendSASVerificationAccept(userID, content, ownKey, sasMethods),
                             SendSASVerificationKey(userID, otherDevice.DeviceID,
                                                    content.transaction_id, ownKey)>>]
        ELSE IF resp = "RejectRequest"
        THEN [s |-> s, new |-> <<>>,
              out |-> <<SendSASVerificationCancel(otherDevice.UserID, otherDevice.DeviceID,
                            content.transaction_id, <<"Not accepted by user">>, CodeByUser)>>]
        ELSE [s |-> s, new |-> <<>>, out |-> <<>>]

\* actuallyStartVerification without the call of timeoutAfter
actuallyStartVerification_NoTimer(m, userID, content, otherDevice, resp, s, ownKey, index) ==
    LET sasMethods == commonSASMethods(methods[m], content.short_authentication_string)
        key == mapKey(userID, content.transaction_id)
        verState == [NewVerState(content.transaction_id, otherDevice, FALSE, ownKey)
                        EXCEPT !.chosenSASMethod = sasMethods[1]]
    IN  IF resp = "AcceptRequest"
        THEN IF Len(sasMethods) = 0
             THEN [s |-> s, new |-> <<>>,
                   out |-> <<SendSASVerificationCancel(otherDevice.UserID, otherDevice.DeviceID,
                                 content.transaction_id, <<"No common SAS methods">>,
                                 CodeUnknownMethod)>>]
             ELSE IF key \in DOMAIN s
             THEN [s |-> s, new |-> <<>>,
                   out |-> <<SendSASVerificationCancel(otherDevice.UserID, otherDevice.DeviceID,
                                 content.transaction_id, <<"Transaction already exists">>,
                                 CodeUnexpectedMessage)>>]
             ELSE [s |-> Store(s, key, index), new |-> <<verState>>,
                   out |-> <<SendSASVerificationAccept(userID, content, ownKey, sasMethods)>>]
        ELSE IF resp = "RejectRequest"
        THEN [s |-> s, new |-> <<>>,
              out |-> <<SendSASVerificationCancel(otherDevice.UserID, otherDevice.DeviceID,
                            content.transaction_id, <<"Not accepted by user">>, CodeByUser)>>]
        ELSE [s |-> s, new |-> <<>>, out |-> <<>>]

\* actuallyStartVerification, for the host's answer resp:
\* [s: the store, new: the states created, out: the messages sent]
actuallyStartVerification(m, userID, content, otherDevice, resp, s, ownKey, index) ==
    LET sasMethods == commonSASMethods(methods[m], content.short_authentication_string)
        key == mapKey(userID, content.transaction_id)
        verState == [NewVerState(content.transaction_id, otherDevice, FALSE, ownKey)
                        EXCEPT !.chosenSASMethod = sasMethods[1], !.timer = "armed"]
    IN  IF resp = "AcceptRequest"
        THEN IF Len(sasMethods) = 0
             THEN [s |-> s, new |-> <<>>,
                   out |-> <<SendSASVerificationCancel(otherDevice.UserID, otherDevice.DeviceID,
                                 content.transaction_id, <<"No common SAS methods">>,
                                 CodeUnknownMethod)>>]
             ELSE IF key \in DOMAIN s
             THEN [s |-> s, new |-> <<>>,
                   out |-> <<SendSASVerificationCancel(otherDevice.UserID, otherDevice.DeviceID,
                                 content.transaction_id, <<"Transaction already exists">>,
                                 CodeUnexpectedMessage)>>]
             ELSE [s |-> Store(s, key, index), new |-> <<verState>>,
                   out |-> <<SendSASVerificationAccept(userID, content, ownKey, sasMethods)>>]
        ELSE IF resp = "RejectRequest"
        THEN [s |-> s, new |-> <<>>,
              out |-> <<SendSASVerificationCancel(otherDevice.UserID, otherDevice.DeviceID,
                            content.transaction_id, <<"Not accepted by user">>, CodeByUser)>>]
        ELSE [s |-> s, new |-> <<>>, out |-> <<>>]

\* whether a list of the start event names a value: content.SupportsHashMethod and the like
Supports(list, value) == \E j \in 1..Len(list) : list[j] = value

\* startCheck without the case for decimal SAS
startCheck_SkipsDecimal(content) ==
    IF content.method # "m.sas.v1" THEN <<"Only SAS method is supported">>
    ELSE IF ~Supports(content.key_agreement_protocols, "curve25519-hkdf-sha256")
    THEN <<"Only curve25519-hkdf-sha256 key agreement protocol is supported">>
    ELSE IF ~Supports(content.hashes, "sha256") THEN <<"Only SHA256 hashing is supported">>
    ELSE IF ~Supports(content.message_authentication_codes, "hkdf-hmac-sha256")
    THEN <<"Only hkdf-hmac-sha256 MAC method is supported">>
    ELSE <<>>

\* the checks of handleVerificationStart before the host is asked: the reason of the
\* cancellation, or <<>> when the start event passes all of them
startCheck(content) ==
    IF content.method # "m.sas.v1" THEN <<"Only SAS method is supported">>
    ELSE IF ~Supports(content.key_agreement_protocols, "curve25519-hkdf-sha256")
    THEN <<"Only curve25519-hkdf-sha256 key agreement protocol is supported">>
    ELSE IF ~Supports(content.hashes, "sha256") THEN <<"Only SHA256 hashing is supported">>
    ELSE IF ~Supports(content.message_authentication_codes, "hkdf-hmac-sha256")
    THEN <<"Only hkdf-hmac-sha256 MAC method is supported">>
    ELSE IF ~Supports(content.short_authentication_string, SASDecimal)
    THEN <<"Decimal SAS method must be supported">>
    ELSE <<>>

\* whether GetOrFetchDevice finds the device
DeviceKnown(m, userID, deviceID) ==
    userID = UserOf(Peer(m)) /\ deviceID = DeviceOf(Peer(m))

\* handleVerificationStart: [s, new, out] as for actuallyStartVerification
handleVerificationStartBody(m, msg, resp, s, ownKey, index) ==
    LET otherDevice == DeviceIdentity(m)
    IN  IF ~DeviceKnown(m, msg.user, msg.c.from_device)
        THEN [s |-> s, new |-> <<>>, out |-> <<>>]
        ELSE IF startCheck(msg.c) # <<>>
        THEN [s |-> s, new |-> <<>>,
              out |-> <<SendSASVerificationCancel(otherDevice.UserID, otherDevice.DeviceID,
                            msg.c.transaction_id, startCheck(msg.c), CodeUnknownMethod)>>]
        ELSE actuallyStartVerification(m, msg.user, msg.c, otherDevice, resp, s, ownKey, index)

\* an inbound m.key.verification.start, the host answering resp when asked
handleVerificationStart(m, msg, resp) ==
    /\ msg.type = "start"
    /\ NextKey(m) <= MaxInst
    /\ LET res == handleVerificationStartBody(m, msg, resp, store[m],
                                              PubKey(m, NextKey(m)), Len(insts[m]) + 1)
       IN  /\ store' = [store EXCEPT ![m] = res.s]
           /\ insts' = [insts EXCEPT ![m] = @ \o res.new]
           /\ sent' = [sent EXCEPT ![m] = @ \o res.out]
    /\ Take(m, msg, IF DeviceKnown(m, msg.user, msg.c.from_device) /\ startCheck(msg.c) = <<>>
                    THEN resp ELSE "")
    /\ UNCHANGED <<pend, calls, methods, held>>

\* ------------------------------------------------- Accept, Key, Mac: lookup
\* getTransactionState that sends nothing for an unknown transaction
getTransactionState_Silent(m, transactionID, userID, s) ==
    LET key == mapKey(userID, transactionID)
    IN  IF key \notin DOMAIN s
        THEN [found |-> FALSE, index |-> 0, s |-> s, out |-> <<>>]
        ELSE IF insts[m][s[key]].otherDevice.UserID # userID
        THEN [found |-> FALSE, index |-> 0, s |-> Delete(s, key),
              out |-> <<SendSASVerificationCancel(userID, <<"*">>, transactionID,
                            <<"Unknown user for transaction ">> \o transactionID
                                \o <<": ">> \o userID,
                            CodeUserMismatch)>>]
        ELSE [found |-> TRUE, index |-> s[key], s |-> s, out |-> <<>>]

\* getTransactionState: [found, index: of the state, s: the store, out: the messages sent]
getTransactionState(m, transactionID, userID, s) ==
    LET key == mapKey(userID, transactionID)
    IN  IF key \notin DOMAIN s
        THEN [found |-> FALSE, index |-> 0, s |-> s,
              out |-> <<SendSASVerificationCancel(userID, <<"*">>, transactionID,
                            <<"Unknown transaction: ">> \o transactionID,
                            CodeUnknownTransaction)>>]
        ELSE IF insts[m][s[key]].otherDevice.UserID # userID
        THEN [found |-> FALSE, index |-> 0, s |-> Delete(s, key),
              out |-> <<SendSASVerificationCancel(userID, <<"*">>, transactionID,
                            <<"Unknown user for transaction ">> \o transactionID
                                \o <<": ">> \o userID,
                            CodeUserMismatch)>>]
        ELSE [found |-> TRUE, index |-> s[key], s |-> s, out |-> <<>>]

\* the handlers of m that are past their lookup
Handlers(m) == {n \in 1..Len(pend[m]) : pend[m][n].kind # "new"}

\* handleVerificationAccept, handleVerificationKey or handleVerificationMAC up to the
\* point where it waits for the lock of the state it found
LookUp(m, msg) ==
    /\ msg.type \in {"accept", "key", "mac"}
    /\ LET got == getTransactionState(m, msg.txn, msg.user, store[m])
       IN  /\ store' = [store EXCEPT ![m] = got.s]
           /\ sent' = [sent EXCEPT ![m] = @ \o got.out]
           /\ pend' = IF got.found
                      THEN [pend EXCEPT ![m] =
                               Append(@, [kind |-> msg.type, msg |-> msg, index |-> got.index])]
                      ELSE pend
    /\ Take(m, msg, "")
    /\ UNCHANGED <<insts, calls, methods, held>>

\* callbackAndCancelSASVerification on state r: [r, out]
callbackAndCancelSASVerification(r, transactionID, reason, code) ==
    [r |-> Notify(r, OnCancel(TRUE, reason, code)),
     out |-> <<SendSASVerificationCancel(r.otherDevice.UserID, r.otherDevice.DeviceID,
                                         transactionID, reason, code)>>]

\* a handler's removal of the transaction followed by callbackAndCancelSASVerification
CancelAs(r, s, userID, transactionID, reason, code) ==
    LET res == callbackAndCancelSASVerification(r, transactionID, reason, code)
    IN  [r |-> res.r, s |-> Delete(s, mapKey(userID, transactionID)), out |-> res.out]

\* ----------------------------------------------------------------- Accept
\* handleVerificationAcceptBody without the check of initiatedByUs and verificationStarted
handleVerificationAcceptBody_NoStateCheck(m, r0, msg, s) ==
    LET r == extendTimeout(r0)
        sasMethods == commonSASMethods(methods[m], msg.c.short_authentication_string)
    IN  IF \/ msg.c.key_agreement_protocol # "curve25519-hkdf-sha256"
           \/ msg.c.hash # "sha256"
           \/ msg.c.message_authentication_code # "hkdf-hmac-sha256"
           \/ Len(sasMethods) = 0
        THEN CancelAs(r, s, msg.user, msg.txn, <<"Verification uses unknown method">>,
                      CodeUnknownMethod)
        ELSE [r |-> Valid(r0, [r EXCEPT !.commitment = msg.c.commitment,
                                        !.chosenSASMethod = sasMethods[1],
                                        !.verificationStarted = TRUE]),
              s |-> s,
              out |-> <<SendSASVerificationKey(msg.user, r.otherDevice.DeviceID, msg.txn,
                                               r.ownKey)>>]

\* handleVerificationAcceptBody that answers an Accept with its Key on a state the peer
\* initiated as well
handleVerificationAcceptBody_KeyForResponder(m, r0, msg, s) ==
    LET r == extendTimeout(r0)
        sasMethods == commonSASMethods(methods[m], msg.c.short_authentication_string)
    IN  IF r.initiatedByUs /\ r.verificationStarted
        THEN CancelAs(r, s, msg.user, msg.txn, <<"Unexpected accept message">>,
                      CodeUnexpectedMessage)
        ELSE IF \/ msg.c.key_agreement_protocol # "curve25519-hkdf-sha256"
                \/ msg.c.hash # "sha256"
                \/ msg.c.message_authentication_code # "hkdf-hmac-sha256"
                \/ Len(sasMethods) = 0
        THEN CancelAs(r, s, msg.user, msg.txn, <<"Verification uses unknown method">>,
                      CodeUnknownMethod)
        ELSE [r |-> Valid(r0, [r EXCEPT !.commitment = msg.c.commitment,
                                        !.chosenSASMethod = sasMethods[1],
                                        !.verificationStarted = TRUE]),
              s |-> s,
              out |-> <<SendSASVerificationKey(msg.user, r.otherDevice.DeviceID, msg.txn,
                                               r.ownKey)>>]

\* handleVerificationAccept under the lock of r: [r, s, out]
handleVerificationAcceptBody(m, r0, msg, s) ==
    LET r == extendTimeout(r0)
        sasMethods == commonSASMethods(methods[m], msg.c.short_authentication_string)
    IN  IF ~r.initiatedByUs \/ r.verificationStarted
        THEN CancelAs(r, s, msg.user, msg.txn, <<"Unexpected accept message">>,
                      CodeUnexpectedMessage)
        ELSE IF \/ msg.c.key_agreement_protocol # "curve25519-hkdf-sha256"
                \/ msg.c.hash # "sha256"
                \/ msg.c.message_authentication_code # "hkdf-hmac-sha256"
                \/ Len(sasMethods) = 0
        THEN CancelAs(r, s, msg.user, msg.txn, <<"Verification uses unknown method">>,
                      CodeUnknownMethod)
        ELSE [r |-> Valid(r0, [r EXCEPT !.commitment = msg.c.commitment,
                                        !.chosenSASMethod = sasMethods[1],
                                        !.verificationStarted = TRUE]),
              s |-> s,
              out |-> <<SendSASVerificationKey(msg.user, r.otherDevice.DeviceID, msg.txn,
                                               r.ownKey)>>]

\* -------------------------------------------------------------------- Key
\* sas.SetTheirKey succeeds on a key of the right form
KeyValid(key) == key # <<"malformed">>

\* SASArguments with this device's fields first, whatever its role
SASArguments_LocalFirst(m, r, key) ==
    <<UserOf(m), DeviceOf(m), r.ownKey,
      r.otherDevice.UserID, r.otherDevice.DeviceID, key, r.txn>>

\* the arguments handleVerificationKey gives to GetVerificationSAS
SASArguments(m, r, key) ==
    IF r.initiatedByUs
    THEN <<UserOf(m), DeviceOf(m), r.ownKey,
           r.otherDevice.UserID, r.otherDevice.DeviceID, key, r.txn>>
    ELSE <<r.otherDevice.UserID, r.otherDevice.DeviceID, key,
           UserOf(m), DeviceOf(m), r.ownKey, r.txn>>

\* handleVerificationKeyBody without the check of keyReceived
handleVerificationKeyBody_NoReplayCheck(m, r0, msg, s) ==
    LET r == extendTimeout(r0)
        keyed == [r EXCEPT !.theirKey = msg.c.key, !.keyReceived = TRUE]
        comparing == Valid(r0, [keyed EXCEPT !.sasArgs = SASArguments(m, r, msg.c.key),
                                             !.sasGo = "verifying"])
    IN  IF ~r.verificationStarted
        THEN CancelAs(r, s, msg.user, msg.txn, <<"Unexpected key message">>,
                      CodeUnexpectedMessage)
        ELSE IF ~KeyValid(msg.c.key)
        THEN [r |-> r, s |-> s, out |-> <<>>]
        ELSE IF r.initiatedByUs
        THEN IF Sha256(msg.c.key \o r.startEventCanonical) # r.commitment
             THEN CancelAs(keyed, s, msg.user, msg.txn, <<"Commitment mismatch">>,
                           CodeCommitmentMismatch)
             ELSE [r |-> comparing, s |-> s, out |-> <<>>]
        ELSE [r |-> comparing, s |-> s,
              out |-> <<SendSASVerificationKey(msg.user, r.otherDevice.DeviceID, msg.txn,
                                               r.ownKey)>>]

\* handleVerificationKeyBody without the comparison of the commitment
handleVerificationKeyBody_NoCommitmentCheck(m, r0, msg, s) ==
    LET r == extendTimeout(r0)
        keyed == [r EXCEPT !.theirKey = msg.c.key, !.keyReceived = TRUE]
        comparing == Valid(r0, [keyed EXCEPT !.sasArgs = SASArguments(m, r, msg.c.key),
                                             !.sasGo = "verifying"])
    IN  IF ~r.verificationStarted \/ r.keyReceived
        THEN CancelAs(r, s, msg.user, msg.txn, <<"Unexpected key message">>,
                      CodeUnexpectedMessage)
        ELSE IF ~KeyValid(msg.c.key)
        THEN [r |-> r, s |-> s, out |-> <<>>]
        ELSE IF r.initiatedByUs
        THEN [r |-> comparing, s |-> s, out |-> <<>>]
        ELSE [r |-> comparing, s |-> s,
              out |-> <<SendSASVerificationKey(msg.user, r.otherDevice.DeviceID, msg.txn,
                                               r.ownKey)>>]

\* handleVerificationKey under the lock of r: [r, s, out]
handleVerificationKeyBody(m, r0, msg, s) ==
    LET r == extendTimeout(r0)
        keyed == [r EXCEPT !.theirKey = msg.c.key, !.keyReceived = TRUE]
        comparing == Valid(r0, [keyed EXCEPT !.sasArgs = SASArguments(m, r, msg.c.key),
                                             !.sasGo = "verifying"])
    IN  IF ~r.verificationStarted \/ r.keyReceived
        THEN CancelAs(r, s, msg.user, msg.txn, <<"Unexpected key message">>,
                      CodeUnexpectedMessage)
        ELSE IF ~KeyValid(msg.c.key)
        THEN [r |-> r, s |-> s, out |-> <<>>]
        ELSE IF r.initiatedByUs
        THEN IF Sha256(msg.c.key \o r.startEventCanonical) # r.commitment
             THEN CancelAs(keyed, s, msg.user, msg.txn, <<"Commitment mismatch">>,
                           CodeCommitmentMismatch)
             ELSE [r |-> comparing, s |-> s, out |-> <<>>]
        ELSE [r |-> comparing, s |-> s,
              out |-> <<SendSASVerificationKey(msg.user, r.otherDevice.DeviceID, msg.txn,
                                               r.ownKey)>>]

\* -------------------------------------------------------------------- Mac
\* handleVerificationMACBody that leaves the entry in the store
handleVerificationMACBody_KeepsEntry(r0, msg, s) ==
    LET r == extendTimeout(r0)
    IN  IF ~r.verificationStarted \/ ~r.keyReceived
        THEN CancelAs(r, s, msg.user, msg.txn, <<"Unexpected MAC message">>,
                      CodeUnexpectedMessage)
        ELSE [r |-> Valid(r0, [r EXCEPT !.macGo = Append(@, msg)]), s |-> s, out |-> <<>>]

\* handleVerificationMAC under the lock of r, up to the start of its goroutine: [r, s, out]
handleVerificationMACBody(r0, msg, s) ==
    LET r == extendTimeout(r0)
        forgotten == Delete(s, mapKey(msg.user, msg.txn))
    IN  IF ~r.verificationStarted \/ ~r.keyReceived
        THEN CancelAs(r, forgotten, msg.user, msg.txn, <<"Unexpected MAC message">>,
                      CodeUnexpectedMessage)
        ELSE [r |-> Valid(r0, [r EXCEPT !.macGo = Append(@, msg)]), s |-> forgotten,
              out |-> <<>>]

\* content.Mac[keyID]: the empty string when the map has no such key
MacOf(content, keyID) == IF keyID \in DOMAIN content.mac THEN content.mac[keyID] ELSE <<>>

\* whether the MACs of a received Mac message equal the ones recomputed with the peer as
\* sender and this device as receiver
MACsMatch(m, r, msg) ==
    LET device == r.otherDevice
        keyID == NewKeyID(device.DeviceID)
        expected == getPKAndKeysMAC(Secret(r.ownKey, r.theirKey), device.UserID,
                                    device.DeviceID, UserOf(m), DeviceOf(m), msg.txn,
                                    device.SigningKey, keyID, DOMAIN msg.c.mac)
    IN  [keys |-> msg.c.keys = expected[2], pk |-> MacOf(msg.c, keyID) = expected[1]]

\* judgeMAC that does not look at the match result
judgeMAC_IgnoresMatch(m, r, msg, matched) ==
    IF ~MACsMatch(m, r, msg).keys
    THEN callbackAndCancelSASVerification(r, msg.txn, <<"Mismatched keys MACs">>,
                                          CodeKeyMismatch)
    ELSE IF ~MACsMatch(m, r, msg).pk
    THEN callbackAndCancelSASVerification(r, msg.txn, <<"Mismatched PK MACs">>,
                                          CodeKeyMismatch)
    ELSE [r |-> Notify([r EXCEPT !.trust = @ + 1], OnSuccess), out |-> <<>>]

\* judgeMAC without the comparison of the device key's MAC
judgeMAC_KeysOnly(m, r, msg, matched) ==
    IF ~matched
    THEN callbackAndCancelSASVerification(r, msg.txn, <<"SAS do not match">>, CodeSASMismatch)
    ELSE IF ~MACsMatch(m, r, msg).keys
    THEN callbackAndCancelSASVerification(r, msg.txn, <<"Mismatched keys MACs">>,
                                          CodeKeyMismatch)
    ELSE [r |-> Notify([r EXCEPT !.trust = @ + 1], OnSuccess), out |-> <<>>]

\* the goroutine of handleVerificationMAC for message msg, once it has the match result
\* and the lock of r: [r, out]
judgeMAC(m, r, msg, matched) ==
    IF ~matched
    THEN callbackAndCancelSASVerification(r, msg.txn, <<"SAS do not match">>, CodeSASMismatch)
    ELSE IF ~MACsMatch(m, r, msg).keys
    THEN callbackAndCancelSASVerification(r, msg.txn, <<"Mismatched keys MACs">>,
                                          CodeKeyMismatch)
    ELSE IF ~MACsMatch(m, r, msg).pk
    THEN callbackAndCancelSASVerification(r, msg.txn, <<"Mismatched PK MACs">>,
                                          CodeKeyMismatch)
    ELSE [r |-> Notify([r EXCEPT !.trust = @ + 1], OnSuccess), out |-> <<>>]

\* the goroutine of handleVerificationMAC when it reads the match result and leaves it in
\* sasMatched for the next reader
handleVerificationMACJudge_KeepsResult(m, i, n) ==
    /\ i \in 1..Len(insts[m])
    /\ n \in 1..Len(insts[m][i].macGo)
    /\ Len(insts[m][i].sasMatched) > 0
    /\ LET r == insts[m][i]
           taken == [r EXCEPT !.macGo = Without(@, n),
                              !.judged = Append(@, [msg |-> r.macGo[n],
                                                    matched |-> Head(r.sasMatched)])]
           res == judgeMAC(m, taken, r.macGo[n], Head(r.sasMatched))
       IN  /\ insts' = [insts EXCEPT ![m][i] = res.r]
           /\ sent' = [sent EXCEPT ![m] = @ \o res.out]
    /\ UNCHANGED <<store, pend, recvd, calls, methods, held>>

\* the goroutine of handleVerificationMAC: it takes the match result from sasMatched,
\* then judges the peer's MACs
handleVerificationMACJudge(m, i, n) ==
    /\ i \in 1..Len(insts[m])
    /\ n \in 1..Len(insts[m][i].macGo)
    /\ Len(insts[m][i].sasMatched) > 0
    /\ LET r == insts[m][i]
           taken == [r EXCEPT !.sasMatched = Tail(@), !.macGo = Without(@, n),
                              !.judged = Append(@, [msg |-> r.macGo[n],
                                                    matched |-> Head(r.sasMatched)])]
           res == judgeMAC(m, taken, r.macGo[n], Head(r.sasMatched))
       IN  /\ insts' = [insts EXCEPT ![m][i] = res.r]
           /\ sent' = [sent EXCEPT ![m] = @ \o res.out]
    /\ UNCHANGED <<store, pend, recvd, calls, methods, held>>

\* sasComparedBody after which the goroutine of handleVerificationKey is still to report a
\* result
sasComparedBody_ReportsAgain(m, r0, didMatch) ==
    LET r == [extendTimeout(r0) EXCEPT !.sasMatched = Append(@, didMatch),
                                       !.verified = Append(@, didMatch)]
    IN  [r |-> r,
         out |-> IF didMatch
                 THEN <<SendSASVerificationMAC(m, r.otherDevice.UserID, r.otherDevice.DeviceID,
                                               r.txn, Secret(r.ownKey, r.theirKey))>>
                 ELSE <<>>]

\* sasComparedBody that sends the Mac whatever the result
sasComparedBody_AlwaysMac(m, r0, didMatch) ==
    LET r == [extendTimeout(r0) EXCEPT !.sasMatched = Append(@, didMatch),
                                       !.verified = Append(@, didMatch),
                                       !.sasGo = "done"]
    IN  [r |-> r,
         out |-> <<SendSASVerificationMAC(m, r.otherDevice.UserID, r.otherDevice.DeviceID,
                                          r.txn, Secret(r.ownKey, r.theirKey))>>]

\* sasCompared under the lock of r, called with the result of hooks.VerifySASMatch: [r, out]
sasComparedBody(m, r0, didMatch) ==
    LET r == [extendTimeout(r0) EXCEPT !.sasMatched = Append(@, didMatch),
                                       !.verified = Append(@, didMatch),
                                       !.sasGo = "done"]
    IN  [r |-> r,
         out |-> IF didMatch
                 THEN <<SendSASVerificationMAC(m, r.otherDevice.UserID, r.otherDevice.DeviceID,
                                               r.txn, Secret(r.ownKey, r.theirKey))>>
                 ELSE <<>>]

\* sasCompared when the goroutine of handleVerificationMAC keeps the lock of the state while
\* it waits for sasMatched: sasCompared does not get the lock
sasCompared_LockHeldByMac(m, i, didMatch) ==
    /\ i \in 1..Len(insts[m])
    /\ insts[m][i].sasGo = "verifying"
    /\ Len(insts[m][i].sasMatched) < 1
    /\ insts[m][i].macGo = <<>>
    /\ LET res == sasComparedBody(m, insts[m][i], didMatch)
       IN  /\ insts' = [insts EXCEPT ![m][i] = res.r]
           /\ sent' = [sent EXCEPT ![m] = @ \o res.out]
    /\ UNCHANGED <<store, pend, recvd, calls, methods, held>>

\* the goroutine of handleVerificationKey: hooks.VerifySASMatch returns didMatch and
\* sasCompared runs
sasCompared(m, i, didMatch) ==
    /\ i \in 1..Len(insts[m])
    /\ insts[m][i].sasGo = "verifying"
    /\ Len(insts[m][i].sasMatched) < 1
    /\ LET res == sasComparedBody(m, insts[m][i], didMatch)
       IN  /\ insts' = [insts EXCEPT ![m][i] = res.r]
           /\ sent' = [sent EXCEPT ![m] = @ \o res.out]
    /\ UNCHANGED <<store, pend, recvd, calls, methods, held>>

\* ------------------------------------------------- the handlers under the lock
\* a handler that waits for the lock of its state gets it and runs to its end
UnderLock(m, n, res) ==
    /\ insts' = [insts EXCEPT ![m][pend[m][n].index] = res.r]
    /\ store' = [store EXCEPT ![m] = res.s]
    /\ sent' = [sent EXCEPT ![m] = @ \o res.out]
    /\ pend' = [pend EXCEPT ![m] = Without(@, n)]
    /\ UNCHANGED <<recvd, calls, methods, held>>

handleVerificationAccept(m, n) ==
    /\ n \in 1..Len(pend[m])
    /\ pend[m][n].kind = "accept"
    /\ UnderLock(m, n, handleVerificationAcceptBody(m, insts[m][pend[m][n].index],
                                                    pend[m][n].msg, store[m]))

handleVerificationKey(m, n) ==
    /\ n \in 1..Len(pend[m])
    /\ pend[m][n].kind = "key"
    /\ UnderLock(m, n, handleVerificationKeyBody(m, insts[m][pend[m][n].index],
                                                 pend[m][n].msg, store[m]))

handleVerificationMAC(m, n) ==
    /\ n \in 1..Len(pend[m])
    /\ pend[m][n].kind = "mac"
    /\ UnderLock(m, n, handleVerificationMACBody(insts[m][pend[m][n].index],
                                                 pend[m][n].msg, store[m]))

\* ----------------------------------------------------------------- Cancel
\* handleVerificationCancel that answers the Cancel with a Cancel
handleVerificationCancel_Replies(m, msg) ==
    /\ msg.type = "cancel"
    /\ LET key == mapKey(msg.user, msg.txn)
           ok == key \in DOMAIN store[m]
       IN  /\ insts' = IF ok
                       THEN [insts EXCEPT ![m][store[m][key]] =
                                Notify(@, OnCancel(FALSE, msg.c.reason, msg.c.code))]
                       ELSE insts
           /\ pend' = [pend EXCEPT ![m] = Append(@, [kind |-> "cancel", msg |-> msg, index |-> 0])]
           /\ sent' = [sent EXCEPT ![m] = Append(@, SendSASVerificationCancel(
                                                     msg.user, <<"*">>, msg.txn, msg.c.reason,
                                                     msg.c.code))]
    /\ Take(m, msg, "")
    /\ UNCHANGED <<store, calls, methods, held>>

\* handleVerificationCancel up to its Delete: the state stored under the key, if any, has
\* its hooks told of the remote cancellation
handleVerificationCancel(m, msg) ==
    /\ msg.type = "cancel"
    /\ LET key == mapKey(msg.user, msg.txn)
           ok == key \in DOMAIN store[m]
       IN  /\ insts' = IF ok
                       THEN [insts EXCEPT ![m][store[m][key]] =
                                Notify(@, OnCancel(FALSE, msg.c.reason, msg.c.code))]
                       ELSE insts
           /\ pend' = [pend EXCEPT ![m] = Append(@, [kind |-> "cancel", msg |-> msg, index |-> 0])]
    /\ Take(m, msg, "")
    /\ UNCHANGED <<store, sent, calls, methods, held>>

\* the Delete that ends handleVerificationCancel
handleVerificationCancelDelete(m, n) ==
    /\ n \in 1..Len(pend[m])
    /\ pend[m][n].kind = "cancel"
    /\ store' = [store EXCEPT ![m] = Delete(@, mapKey(pend[m][n].msg.user, pend[m][n].msg.txn))]
    /\ pend' = [pend EXCEPT ![m] = Without(@, n)]
    /\ UNCHANGED <<insts, sent, recvd, calls, methods, held>>

\* CancelSASVerification up to the lock: ErrUnknownTransaction when nothing is stored
CancelSASVerification(m, userID, transactionID, reason) ==
    /\ calls[m] < MaxCalls
    /\ LET mapKeyOfCall == mapKey(userID, transactionID)
       IN  pend' = IF mapKeyOfCall \in DOMAIN store[m]
                   THEN [pend EXCEPT ![m] =
                            Append(@, [kind |-> "usercancel",
                                       msg |-> [type |-> "usercancel", user |-> userID,
                                                txn |-> transactionID,
                                                c |-> [reason |-> reason]],
                                       index |-> store[m][mapKeyOfCall]])]
                   ELSE pend
    /\ calls' = [calls EXCEPT ![m] = @ + 1]
    /\ UNCHANGED <<store, insts, sent, recvd, methods, held>>

\* CancelSASVerificationLocked without the Delete of the transaction
CancelSASVerificationLocked_KeepsEntry(m, n) ==
    /\ n \in 1..Len(pend[m])
    /\ pend[m][n].kind = "usercancel"
    /\ UnderLock(m, n, [CancelAs(insts[m][pend[m][n].index], store[m], pend[m][n].msg.user,
                                 pend[m][n].msg.txn, pend[m][n].msg.c.reason, CodeByUser)
                           EXCEPT !.s = store[m]])

\* CancelSASVerification under the lock of the state it loaded
CancelSASVerificationLocked(m, n) ==
    /\ n \in 1..Len(pend[m])
    /\ pend[m][n].kind = "usercancel"
    /\ UnderLock(m, n, CancelAs(insts[m][pend[m][n].index], store[m], pend[m][n].msg.user,
                                pend[m][n].msg.txn, pend[m][n].msg.c.reason, CodeByUser))

\* ---------------------------------------------------------------- Request
\* handleVerificationRequest, the host answering resp when asked; an accepted request
\* runs NewSASVerificationWith up to its LoadOrStore
handleVerificationRequest(m, msg, resp) ==
    /\ msg.type = "request"
    /\ NextKey(m) <= MaxInst
    /\ LET device == DeviceIdentity(m)
           known == DeviceKnown(m, msg.user, msg.c.from_device)
           sas == Supports(msg.c.methods, "m.sas.v1")
           start == SendSASVerificationStart(m, device.UserID, device.DeviceID,
                                             msg.c.transaction_id, methods[m])
           verState == [NewVerState(msg.c.transaction_id, device, TRUE, PubKey(m, NextKey(m)))
                           EXCEPT !.startEventCanonical = CanonicalStart(start.c)]
           cancel(reason, code) ==
               SendSASVerificationCancel(device.UserID, device.DeviceID,
                                         msg.c.transaction_id, reason, code)
       IN  /\ sent' = [sent EXCEPT ![m] = @ \o
                         (IF ~known THEN <<>>
                          ELSE IF ~sas
                          THEN <<cancel(<<"Only SAS method is supported">>, CodeUnknownMethod)>>
                          ELSE IF resp = "AcceptRequest" THEN <<start>>
                          ELSE IF resp = "RejectRequest"
                          THEN <<cancel(<<"Not accepted by user">>, CodeByUser)>>
                          ELSE <<>>)]
           /\ pend' = IF known /\ sas /\ resp = "AcceptRequest"
                      THEN [pend EXCEPT ![m] = Append(@, [kind |-> "new", verState |-> verState])]
                      ELSE pend
    /\ Take(m, msg, IF DeviceKnown(m, msg.user, msg.c.from_device)
                       /\ Supports(msg.c.methods, "m.sas.v1")
                    THEN resp ELSE "")
    /\ UNCHANGED <<store, insts, calls, methods, held>>

\* ------------------------------------------------------ the peer as environment
\* an inbound event from the peer's user
Event(m, type, transactionID, content) ==
    [type |-> type, user |-> UserOf(Peer(m)), txn |-> transactionID, c |-> content]

\* an ephemeral key the peer can send
EnvKeys(m) == {PubKey(Peer(m), 1), ForeignKey}

\* start events: the ones a peer sends, and one that is not for SAS
EnvStarts(m) ==
    LET good(t, l) == StartContent(Peer(m), t, l)
    IN  UNION {{Event(m, "start", t, c) : c \in UNION {
            {good(t, l) : l \in {<<SASDecimal>>, <<SASEmoji, SASDecimal>>}},
            {[good(t, <<SASDecimal>>) EXCEPT !.method = "m.qr_code.show.v1"]}}} : t \in Txns}

\* accept events: with the commitment to a key of the peer or to nothing m knows, for the
\* start event m sends
EnvAccepts(m) ==
    LET good(t, l, commitment) ==
            [method |-> "m.sas.v1",
             key_agreement_protocol |-> "curve25519-hkdf-sha256",
             hash |-> "sha256",
             message_authentication_code |-> "hkdf-hmac-sha256",
             short_authentication_string |-> l,
             commitment |-> commitment]
        committed(t) == Sha256(PubKey(Peer(m), 1)
                                   \o CanonicalStart(StartContent(m, t, methods[m])))
    IN  UNION {{Event(m, "accept", t, c) : c \in UNION {
            {good(t, l, committed(t)) : l \in {<<SASDecimal>>, <<SASEmoji, SASDecimal>>}},
            {[good(t, <<SASDecimal>>, committed(t)) EXCEPT !.hash = "md5"]}}} : t \in Txns}

\* key events
EnvKeyEvents(m) ==
    {Event(m, "key", t, [key |-> k]) : t \in Txns, k \in EnvKeys(m) \cup {<<"malformed">>}}

\* mac events: what a peer holding signing key sk sends for the shared secret of m's n-th
\* key and the peer's key, also with a second key id in its list or a wrong keys MAC
EnvMacs(m) ==
    LET honest(t, n, sk) ==
            LET keyID == NewKeyID(DeviceOf(Peer(m)))
                macs == getPKAndKeysMAC(Secret(PubKey(m, n), PubKey(Peer(m), 1)),
                                        UserOf(Peer(m)), DeviceOf(Peer(m)), UserOf(m),
                                        DeviceOf(m), t, sk, keyID, {})
            IN  [keys |-> macs[2], mac |-> [k \in {keyID} |-> macs[1]]]
        withMaster(t, n) ==
            LET keyID == NewKeyID(DeviceOf(Peer(m)))
                ids == {keyID, NewKeyID(<<"master">>)}
                macs == getPKAndKeysMAC(Secret(PubKey(m, n), PubKey(Peer(m), 1)),
                                        UserOf(Peer(m)), DeviceOf(Peer(m)), UserOf(m),
                                        DeviceOf(m), t, SigningKeyOf(Peer(m)), keyID, ids)
            IN  [keys |-> macs[2],
                 mac |-> [k \in ids |-> IF k = keyID THEN macs[1] ELSE <<"mac", "other">>]]
    IN  UNION {{Event(m, "mac", t, c) : c \in UNION {
            {honest(t, n, SigningKeyOf(Peer(m))) : n \in 1..MaxInst},
            {honest(t, 1, ForgedSigningKey), withMaster(t, 1)},
            {[honest(t, 1, SigningKeyOf(Peer(m))) EXCEPT !.keys = <<"mac", "other">>]}}} : t \in Txns}

\* cancel events
EnvCancels(m) ==
    {Event(m, "cancel", t, [reason |-> <<"User rejected">>, code |-> CodeByUser]) : t \in Txns}

\* request events
EnvRequests(m) ==
    {Event(m, "request", t, [from_device |-> DeviceOf(Peer(m)), transaction_id |-> t,
                             methods |-> l]) :
        t \in Txns, l \in {<<"m.sas.v1">>, <<"m.qr_code.show.v1">>}}

\* the machines that run in Spec: X, its peer being the environment
Active == {"X"}

\* the reasons the host gives to CancelSASVerification
UserReasons == {<<"Cancelled by the user">>}

\* whether one more handler of m may wait for a lock
Room(m) == Cardinality(Handlers(m)) < MaxPend

\* a step of machine m against a peer that may send anything
Next ==
    \E m \in Active :
        \/ \E t \in Txns : NewSASVerificationWith(m, t)
        \/ \E n \in 1..Len(pend[m]) : NewSASVerificationStore(m, n)
        \/ \E t \in Txns, reason \in UserReasons :
               Room(m) /\ CancelSASVerification(m, UserOf(Peer(m)), t, reason)
        \/ \E n \in 1..Len(pend[m]) : CancelSASVerificationLocked(m, n)
        \/ \E msg \in EnvStarts(m), resp \in Responses :
               recvd[m].n < MaxInbound /\ handleVerificationStart(m, msg, resp)
        \/ \E msg \in EnvRequests(m), resp \in Responses :
               recvd[m].n < MaxInbound /\ handleVerificationRequest(m, msg, resp)
        \/ \E msg \in EnvAccepts(m) \cup EnvKeyEvents(m) \cup EnvMacs(m) :
               /\ recvd[m].n < MaxInbound
               /\ mapKey(msg.user, msg.txn) \in DOMAIN store[m] => Room(m)
               /\ LookUp(m, msg)
        \/ \E msg \in EnvCancels(m) :
               recvd[m].n < MaxInbound /\ Room(m) /\ handleVerificationCancel(m, msg)
        \/ \E n \in 1..Len(pend[m]) : handleVerificationAccept(m, n)
        \/ \E n \in 1..Len(pend[m]) : handleVerificationKey(m, n)
        \/ \E n \in 1..Len(pend[m]) : handleVerificationMAC(m, n)
        \/ \E n \in 1..Len(pend[m]) : handleVerificationCancelDelete(m, n)
        \/ \E i \in 1..Len(insts[m]), didMatch \in BOOLEAN : sasCompared(m, i, didMatch)
        \/ \E i \in 1..Len(insts[m]) :
               \E n \in 1..Len(insts[m][i].macGo) : handleVerificationMACJudge(m, i, n)
        \/ \E i \in 1..Len(insts[m]) : TimerExpire(m, i)
        \/ \E i \in 1..Len(insts[m]) : timeoutAfter(m, i)

Spec == Init /\ [][Next]_vars

\* Spec with the goroutine of every timer scheduled once its context is done
SpecTimer ==
    /\ Init
    /\ [][Next]_vars
    /\ \A m \in Machines, i \in 1..MaxInst : WF_vars(timeoutAfter(m, i))

\* Spec with time passing: the deadline of a timer that stays armed passes, and the
\* goroutine of every timer is scheduled once its context is done
SpecDeadline ==
    /\ Init
    /\ [][Next]_vars
    /\ \A m \in Machines, i \in 1..MaxInst : WF_vars(TimerExpire(m, i))
    /\ \A m \in Machines, i \in 1..MaxInst : WF_vars(timeoutAfter(m, i))

\* ------------------------------------------------------- fair scheduling
\* a step of a goroutine that is already running: a handler or a host call past its lookup,
\* the goroutine of VerifySASMatch, the goroutine of a Mac, a timer
Scheduled ==
    \E m \in Active :
        \/ \E n \in 1..Len(pend[m]) : NewSASVerificationStore(m, n)
        \/ \E n \in 1..Len(pend[m]) : CancelSASVerificationLocked(m, n)
        \/ \E n \in 1..Len(pend[m]) : handleVerificationAccept(m, n)
        \/ \E n \in 1..Len(pend[m]) : handleVerificationKey(m, n)
        \/ \E n \in 1..Len(pend[m]) : handleVerificationMAC(m, n)
        \/ \E n \in 1..Len(pend[m]) : handleVerificationCancelDelete(m, n)
        \/ \E i \in 1..Len(insts[m]), didMatch \in BOOLEAN : sasCompared(m, i, didMatch)
        \/ \E i \in 1..Len(insts[m]) :
               \E n \in 1..Len(insts[m][i].macGo) : handleVerificationMACJudge(m, i, n)
        \/ \E i \in 1..Len(insts[m]) : TimerExpire(m, i)
        \/ \E i \in 1..Len(insts[m]) : timeoutAfter(m, i)

\* Spec with fair scheduling: a goroutine that can run does run, VerifySASMatch returns and
\* the deadline of an armed timer passes; the peer and the host send what they like, a
\* finite number of times
SpecProgress == Init /\ [][Next]_vars /\ WF_vars(Scheduled)

\* ------------------------------------------------- a transport that can fail
\* handleVerificationStart for a Start the host accepts, when sendToOneDevice returns an
\* error for the Accept: the error is logged, the state is stored and its timer armed
handleVerificationStartSendFails(m, msg) ==
    /\ msg.type = "start"
    /\ NextKey(m) <= MaxInst
    /\ LET res == handleVerificationStartBody(m, msg, "AcceptRequest", store[m],
                                              PubKey(m, NextKey(m)), Len(insts[m]) + 1)
       IN  /\ res.new # <<>>
           /\ store' = [store EXCEPT ![m] = res.s]
           /\ insts' = [insts EXCEPT ![m] = Append(@, [res.new[1] EXCEPT !.unsent = res.out])]
    /\ Take(m, msg, "AcceptRequest")
    /\ UNCHANGED <<sent, pend, calls, methods, held>>

\* handleVerificationAccept when sendToOneDevice returns an error for the Key: the fields
\* of the Accept are taken, the error is logged and the handler returns
handleVerificationAcceptSendFails(m, n) ==
    /\ n \in 1..Len(pend[m])
    /\ pend[m][n].kind = "accept"
    /\ LET res == handleVerificationAcceptBody(m, insts[m][pend[m][n].index],
                                               pend[m][n].msg, store[m])
       IN  /\ Len(res.out) = 1 /\ res.out[1].type = "key"
           /\ UnderLock(m, n, [r |-> [res.r EXCEPT !.unsent = @ \o res.out],
                               s |-> res.s, out |-> <<>>])

\* handleVerificationKeySendFails that cancels the transaction on the send error
handleVerificationKeySendFails_Cancels(m, n) ==
    /\ n \in 1..Len(pend[m])
    /\ pend[m][n].kind = "key"
    /\ LET res == handleVerificationKeyBody(m, insts[m][pend[m][n].index],
                                            pend[m][n].msg, store[m])
           r == [res.r EXCEPT !.sasGo = "none", !.sasArgs = <<>>, !.unsent = @ \o res.out]
       IN  /\ Len(res.out) = 1 /\ res.out[1].type = "key"
           /\ UnderLock(m, n, CancelAs(r, res.s, pend[m][n].msg.user, pend[m][n].msg.txn,
                                       <<"Error sending SAS key">>, CodeUserMismatch))

\* handleVerificationKey of a responder when sendToOneDevice returns an error for its own
\* Key: keyReceived is set, the error is logged and the handler returns before it computes
\* the SAS and starts the goroutine of VerifySASMatch
handleVerificationKeySendFails(m, n) ==
    /\ n \in 1..Len(pend[m])
    /\ pend[m][n].kind = "key"
    /\ LET res == handleVerificationKeyBody(m, insts[m][pend[m][n].index],
                                            pend[m][n].msg, store[m])
       IN  /\ Len(res.out) = 1 /\ res.out[1].type = "key"
           /\ UnderLock(m, n, [r |-> [res.r EXCEPT !.sasGo = "none", !.sasArgs = <<>>,
                                                   !.unsent = @ \o res.out],
                               s |-> res.s, out |-> <<>>])

\* Spec with a transport whose send of an Accept or a Key can return an error
NextSendError ==
    \/ Next
    \/ \E m \in Active :
        \/ \E msg \in EnvStarts(m) :
               recvd[m].n < MaxInbound /\ handleVerificationStartSendFails(m, msg)
        \/ \E n \in 1..Len(pend[m]) : handleVerificationAcceptSendFails(m, n)
        \/ \E n \in 1..Len(pend[m]) : handleVerificationKeySendFails(m, n)

SpecSendError == Init /\ [][NextSendError]_vars

\* ------------------------------------------- a peer that repeats its messages
\* the Start the peer sends for transaction t
BurstStarts(m) ==
    {Inbound(Peer(m), SendSASVerificationStart(Peer(m), UserOf(m), DeviceOf(m), t,
                                               <<SASDecimal>>)) : t \in Txns}

\* the Key and the Mac the peer sends for transaction t, m holding its first key
BurstEvents(m) ==
    UNION {{Inbound(Peer(m), SendSASVerificationKey(UserOf(m), DeviceOf(m), t,
                                                    PubKey(Peer(m), 1))),
            Inbound(Peer(m), SendSASVerificationMAC(Peer(m), UserOf(m), DeviceOf(m), t,
                                Secret(PubKey(Peer(m), 1), PubKey(m, 1))))} : t \in Txns}

\* a step of machine m as responder: the host accepts the peer's Start, then the peer's Key
\* and Mac arrive in any order and any number of times and their handlers run at the same
\* time; no deadline passes
NextBurst ==
    \E m \in Active :
        \/ \E msg \in BurstStarts(m) :
               recvd[m].n = 0 /\ handleVerificationStart(m, msg, "AcceptRequest")
        \/ \E msg \in BurstEvents(m) :
               /\ recvd[m].n < MaxBurst
               /\ Cardinality(Handlers(m)) < MaxBurstPend
               /\ LookUp(m, msg)
        \/ \E n \in 1..Len(pend[m]) : handleVerificationKey(m, n)
        \/ \E n \in 1..Len(pend[m]) : handleVerificationMAC(m, n)
        \/ \E i \in 1..Len(insts[m]), didMatch \in BOOLEAN : sasCompared(m, i, didMatch)
        \/ \E i \in 1..Len(insts[m]) :
               \E n \in 1..Len(insts[m][i].macGo) : handleVerificationMACJudge(m, i, n)
        \/ \E i \in 1..Len(insts[m]) : timeoutAfter(m, i)

SpecBurst == Init /\ [][NextBurst]_vars

\* ------------------------------------------ a peer that cancels at any moment
\* a step of machine m as responder: the steps of NextBurst, and the peer's Cancel arrives
\* at any moment after the Start, its handler running at the same time as the others
NextPeerCancel ==
    \/ NextBurst
    \/ \E m \in Active :
           \/ \E msg \in EnvCancels(m) :
                  /\ recvd[m].n > 0
                  /\ recvd[m].n < MaxBurst
                  /\ Cardinality(Handlers(m)) < MaxBurstPend
                  /\ handleVerificationCancel(m, msg)
           \/ \E n \in 1..Len(pend[m]) : handleVerificationCancelDelete(m, n)

SpecPeerCancel == Init /\ [][NextPeerCancel]_vars

\* ------------------------------------- a sender whose user id is not the peer's
\* a transaction id with a colon in it
ColonTxn == <<"8448", ":", "t1">>

\* a user id that, joined with the transaction id t1, gives the store key of the peer's
\* user id joined with ColonTxn
PortUser(m) == UserOf(Peer(m)) \o <<":", "8448">>

\* the Start the peer sends for ColonTxn
MismatchStarts(m) ==
    {Inbound(Peer(m), SendSASVerificationStart(Peer(m), UserOf(m), DeviceOf(m), ColonTxn, l)) :
        l \in {<<SASDecimal>>, <<SASEmoji, SASDecimal>>}}

\* the Key and the Mac the peer sends for ColonTxn, and the same events as they come from
\* PortUser for the transaction id t1
MismatchEvents(m) ==
    LET key == Inbound(Peer(m), SendSASVerificationKey(UserOf(m), DeviceOf(m), ColonTxn,
                                                       PubKey(Peer(m), 1)))
        mac == Inbound(Peer(m), SendSASVerificationMAC(Peer(m), UserOf(m), DeviceOf(m),
                                    ColonTxn, Secret(PubKey(Peer(m), 1), PubKey(m, 1))))
    IN  {key, mac, [key EXCEPT !.user = PortUser(m), !.txn = <<"t1">>],
         [mac EXCEPT !.user = PortUser(m), !.txn = <<"t1">>]}

\* a step of machine m as responder for ColonTxn, with events of the peer and of PortUser
NextUserMismatch ==
    \E m \in Active :
        \/ \E msg \in MismatchStarts(m), resp \in Responses :
               recvd[m].n < MaxInbound /\ handleVerificationStart(m, msg, resp)
        \/ \E msg \in MismatchEvents(m) :
               recvd[m].n < MaxInbound /\ Room(m) /\ LookUp(m, msg)
        \/ \E n \in 1..Len(pend[m]) : handleVerificationKey(m, n)
        \/ \E n \in 1..Len(pend[m]) : handleVerificationMAC(m, n)
        \/ \E i \in 1..Len(insts[m]), didMatch \in BOOLEAN : sasCompared(m, i, didMatch)
        \/ \E i \in 1..Len(insts[m]) :
               \E n \in 1..Len(insts[m][i].macGo) : handleVerificationMACJudge(m, i, n)
        \/ \E i \in 1..Len(insts[m]) : TimerExpire(m, i)
        \/ \E i \in 1..Len(insts[m]) : timeoutAfter(m, i)

SpecUserMismatch == Init /\ [][NextUserMismatch]_vars

\* ------------------------------------------------- two transactions at a time
\* the transaction ids of two transactions with the same peer
FrameTxns == {<<"t1">>, ColonTxn}

\* the Start the peer sends for transaction t
FrameStarts(m) ==
    {Inbound(Peer(m), SendSASVerificationStart(Peer(m), UserOf(m), DeviceOf(m), t,
                                               <<SASDecimal>>)) : t \in FrameTxns}

\* the Accept the peer sends for the Start of m for transaction t
FrameAccepts(m) ==
    {Inbound(Peer(m), SendSASVerificationAccept(UserOf(m),
                          StartContent(m, t, methods[m]), PubKey(Peer(m), 1),
                          <<SASDecimal>>)) : t \in FrameTxns}

\* the Key and the Macs the peer sends for transaction t, and the Key as it comes from
\* PortUser
FrameEvents(m) ==
    UNION {{Inbound(Peer(m), SendSASVerificationKey(UserOf(m), DeviceOf(m), t,
                                                    PubKey(Peer(m), 1)))}
           \cup {Inbound(Peer(m), SendSASVerificationMAC(Peer(m), UserOf(m), DeviceOf(m), t,
                                      Secret(PubKey(Peer(m), 1), PubKey(m, n)))) :
                    n \in 1..MaxInst}
           \cup {[type |-> "key", user |-> PortUser(m), txn |-> t,
                  c |-> [key |-> PubKey(Peer(m), 1)]]} : t \in FrameTxns}

\* the Cancel the peer sends for transaction t
FrameCancels(m) ==
    {Event(m, "cancel", t, [reason |-> <<"User rejected">>, code |-> CodeByUser]) :
        t \in FrameTxns}

\* NewSASVerificationWith when sendToOneDevice returns an error for the Start: the call
\* returns the error before its LoadOrStore and before timeoutAfter
NewSASVerificationWithSendFails(m, transactionID) ==
    /\ calls[m] < MaxCalls
    /\ calls' = [calls EXCEPT ![m] = @ + 1]
    /\ UNCHANGED <<store, insts, sent, pend, recvd, methods, held>>

\* a step of machine m with up to two transactions under way, its own or the peer's
NextFrame ==
    \E m \in Active :
        \/ \E t \in FrameTxns : NewSASVerificationWith(m, t)
        \/ \E t \in FrameTxns : NewSASVerificationWithSendFails(m, t)
        \/ \E n \in 1..Len(pend[m]) : NewSASVerificationStore(m, n)
        \/ \E t \in FrameTxns, reason \in UserReasons :
               Room(m) /\ CancelSASVerification(m, UserOf(Peer(m)), t, reason)
        \/ \E n \in 1..Len(pend[m]) : CancelSASVerificationLocked(m, n)
        \/ \E msg \in FrameStarts(m) :
               recvd[m].n < MaxInbound /\ handleVerificationStart(m, msg, "AcceptRequest")
        \/ \E msg \in FrameAccepts(m) \cup FrameEvents(m) :
               /\ recvd[m].n < MaxInbound
               /\ mapKey(msg.user, msg.txn) \in DOMAIN store[m] => Room(m)
               /\ LookUp(m, msg)
        \/ \E msg \in FrameCancels(m) :
               recvd[m].n < MaxInbound /\ Room(m) /\ handleVerificationCancel(m, msg)
        \/ \E n \in 1..Len(pend[m]) : handleVerificationAccept(m, n)
        \/ \E n \in 1..Len(pend[m]) : handleVerificationKey(m, n)
        \/ \E n \in 1..Len(pend[m]) : handleVerificationMAC(m, n)
        \/ \E n \in 1..Len(pend[m]) : handleVerificationCancelDelete(m, n)
        \/ \E i \in 1..Len(insts[m]), didMatch \in BOOLEAN : sasCompared(m, i, didMatch)
        \/ \E i \in 1..Len(insts[m]) :
               \E n \in 1..Len(insts[m][i].macGo) : handleVerificationMACJudge(m, i, n)
        \/ \E i \in 1..Len(insts[m]) : TimerExpire(m, i)
        \/ \E i \in 1..Len(insts[m]) : timeoutAfter(m, i)

SpecFrame == Init /\ [][NextFrame]_vars

\* ------------------------------------------------- two machines, end to end
\* both machines with any hooks, each holding the other's signing key
InitE2E ==
    /\ InitCommon
    /\ methods \in [Machines -> MethodLists]
    /\ held = [m \in Machines |-> SigningKeyOf(Peer(m))]

\* whether m takes a message of the peer: the transport delivers each message once, in the
\* order they were sent, and the loop that dispatches the events of a sync response calls
\* the handler of an event when the handler of the event before it has returned
HasMail(m) == recvd[m].n < Len(sent[Peer(m)]) /\ Handlers(m) = {}

\* the next message of the peer, as m's handlers get it
Mail(m) == Inbound(Peer(m), sent[Peer(m)][recvd[m].n + 1])

\* the transaction of the end-to-end run
TheTxn == <<"t1">>

\* a step of the run in which X starts one verification with Y, Y's host accepts it, no
\* message is lost or altered and no deadline passes
NextE2E ==
    \E m \in Machines :
        \/ m = "X" /\ calls[m] = 0 /\ NewSASVerificationWith(m, TheTxn)
        \/ \E n \in 1..Len(pend[m]) : NewSASVerificationStore(m, n)
        \/ HasMail(m) /\ handleVerificationStart(m, Mail(m), "AcceptRequest")
        \/ HasMail(m) /\ LookUp(m, Mail(m))
        \/ HasMail(m) /\ handleVerificationCancel(m, Mail(m))
        \/ \E n \in 1..Len(pend[m]) : handleVerificationAccept(m, n)
        \/ \E n \in 1..Len(pend[m]) : handleVerificationKey(m, n)
        \/ \E n \in 1..Len(pend[m]) : handleVerificationMAC(m, n)
        \/ \E n \in 1..Len(pend[m]) : handleVerificationCancelDelete(m, n)
        \/ \E i \in 1..Len(insts[m]), didMatch \in BOOLEAN : sasCompared(m, i, didMatch)
        \/ \E i \in 1..Len(insts[m]) :
               \E n \in 1..Len(insts[m][i].macGo) : handleVerificationMACJudge(m, i, n)
        \/ \E i \in 1..Len(insts[m]) : timeoutAfter(m, i)

\* every goroutine that can run is scheduled, and every message sent is delivered
SpecE2E == InitE2E /\ [][NextE2E]_vars /\ WF_vars(NextE2E)

\* ================================================================ properties
\* the indices of the verification states of m
Instances(m) == 1..Len(insts[m])

\* the positions of the notifications of r that satisfy P
NotesWith(r, P(_)) == {k \in 1..Len(r.notes) : P(r.notes[k])}

IsOnSuccess(n) == n.hook = "OnSuccess"

\* OnCancel(cancelledByUs, reason, code)
HasCancel(r, cancelledByUs, reason, code) ==
    \E k \in 1..Len(r.notes) : r.notes[k] = OnCancel(cancelledByUs, reason, code)

\* the messages of m that satisfy P
SentWith(m, P(_)) == {k \in 1..Len(sent[m]) : P(sent[m][k])}

\* a judged Mac event with the local match result true and both MACs equal to the ones
\* computed for the peer as sender and m as receiver, under the secret of r
GoodJudgement(m, r, j) ==
    LET keyID == NewKeyID(r.otherDevice.DeviceID)
        info == <<"MATRIX_KEY_VERIFICATION_MAC">> \o r.otherDevice.UserID
                    \o r.otherDevice.DeviceID \o UserOf(m) \o DeviceOf(m) \o j.msg.txn
        secret == Secret(r.ownKey, r.theirKey)
    IN  /\ j.matched
        /\ j.msg.c.keys = CalculateMAC(secret, SortedJoin(DOMAIN j.msg.c.mac),
                                       info \o <<"KEY_IDS">>)
        /\ keyID \in DOMAIN j.msg.c.mac
        /\ j.msg.c.mac[keyID] = CalculateMAC(secret, r.otherDevice.SigningKey, info \o keyID)

\* C1: the peer device is written as verified, and OnSuccess called, only for a Mac event
\* judged after VerifySASMatch returned true and whose keys MAC and device-key MAC equal the
\* locally recomputed ones: the writes and the OnSuccess calls of a state are as many as
\* its good judgements
C1_TrustOnlyAfterMatchAndMAC ==
    \A m \in Machines : \A i \in Instances(m) :
        LET r == insts[m][i]
            good == {k \in 1..Len(r.judged) : GoodJudgement(m, r, r.judged[k])}
        IN  /\ r.trust = Cardinality(good)
            /\ Cardinality(NotesWith(r, IsOnSuccess)) = Cardinality(good)
            /\ r.trust > 0 => r.verified = <<TRUE>>

\* a state was verified
C1_Witness == \E m \in Machines : \E i \in Instances(m) : insts[m][i].trust > 0

\* VerifySASMatch has returned on both sides of the end-to-end run, bx on X and by on Y
Answered(bx, by) ==
    /\ Len(insts["X"]) = 1 /\ insts["X"][1].verified = <<bx>>
    /\ Len(insts["Y"]) = 1 /\ insts["Y"][1].verified = <<by>>

\* m ended verified: OnSuccess is its only notification, the peer device was written as
\* verified once and nothing is stored
Succeeded(m) ==
    /\ Len(insts[m]) = 1
    /\ insts[m][1].notes = <<OnSuccess>>
    /\ insts[m][1].trust = 1
    /\ DOMAIN store[m] = {}

\* C2: in the end-to-end run, once VerifySASMatch has returned true on both sides, both
\* sides eventually and for good have called OnSuccess, have written the other device as
\* verified exactly once and hold no transaction
C2_EndToEndSuccess ==
    [](Answered(TRUE, TRUE) => <>[](Succeeded("X") /\ Succeeded("Y")))

\* both sides ended verified
C2_Witness == Succeeded("X") /\ Succeeded("Y")

\* the end of the run in which rej rejected the SAS: rej cancelled with "SAS do not match",
\* by OnCancel(true) and a Cancel message, its peer was told by OnCancel(false), and
\* nothing is stored
EndedInMismatch(rej) ==
    /\ \A m \in Machines : Len(insts[m]) = 1
    /\ insts[rej][1].notes = <<OnCancel(TRUE, <<"SAS do not match">>, CodeSASMismatch)>>
    /\ insts[Peer(rej)][1].notes = <<OnCancel(FALSE, <<"SAS do not match">>, CodeSASMismatch)>>
    /\ \E k \in 1..Len(sent[rej]) :
           sent[rej][k] = SendSASVerificationCancel(UserOf(Peer(rej)), DeviceOf(Peer(rej)),
                              TheTxn, <<"SAS do not match">>, CodeSASMismatch)
    /\ \A m \in Machines : DOMAIN store[m] = {}

\* C3: in the end-to-end run, once VerifySASMatch has returned false on exactly one side,
\* neither side has written or ever writes the peer device as verified, and eventually and
\* for good both sides are cancelled with "SAS do not match"
C3_EndToEndMismatch ==
    \A rej \in Machines :
        LET oneFalse == Answered(rej # "X", rej # "Y")
        IN  /\ [](oneFalse => \A m \in Machines : \A i \in Instances(m) :
                                  insts[m][i].trust = 0)
            /\ [](oneFalse => <>[]EndedInMismatch(rej))

\* a side rejected the SAS and both sides ended cancelled
C3_Witness ==
    \E rej \in Machines : Answered(rej # "X", rej # "Y") /\ EndedInMismatch(rej)

\* ---------------------------------------------------------------- timeout
IsTimeout(n) == n = OnCancel(TRUE, <<"Timed out">>, CodeTimeout)

\* the store key of state r
KeyOf(r) == mapKey(r.otherDevice.UserID, r.txn)

\* the Cancel messages m sent with the timeout code
TimeoutCancels(m) == SentWith(m, LAMBDA o : o.type = "cancel" /\ o.c.code = CodeTimeout)

\* the step in which the timer goroutine of state i, its deadline passed with no extension,
\* finds the transaction stored
C4_TimerStep(m, i) ==
    /\ insts[m][i].timer = "expired"
    /\ insts'[m][i].timer = "stopped"
    /\ KeyOf(insts[m][i]) \in DOMAIN store[m]

\* the timeout cancellation: the transaction removed, OnCancel(true, "Timed out", timeout),
\* and the Cancel message with the timeout code as the one message sent
C4_Cancelled(m, i) ==
    LET r == insts[m][i]
    IN  /\ KeyOf(r) \notin DOMAIN store'[m]
        /\ insts'[m][i].notes = Append(r.notes, OnCancel(TRUE, <<"Timed out">>, CodeTimeout))
        /\ sent'[m] = Append(sent[m], SendSASVerificationCancel(r.otherDevice.UserID,
                                          r.otherDevice.DeviceID, r.txn, <<"Timed out">>,
                                          CodeTimeout))

\* no state is cancelled by timeout twice, only a state whose timer goroutine has ended was,
\* and m sent as many timeout Cancels as it has states cancelled by timeout
C4_AtMostOnce ==
    \A m \in Machines :
        /\ \A i \in Instances(m) :
               /\ Cardinality(NotesWith(insts[m][i], IsTimeout)) <= 1
               /\ NotesWith(insts[m][i], IsTimeout) # {} => insts[m][i].timer = "stopped"
        /\ Cardinality(TimeoutCancels(m))
               = Cardinality({i \in Instances(m) : NotesWith(insts[m][i], IsTimeout) # {}})

\* C4: a passed deadline is always followed by the end of the timer goroutine; when that
\* goroutine finds the transaction still stored it removes it, calls
\* OnCancel(true, "Timed out", timeout) and sends the Cancel with the timeout code; and no
\* transaction is cancelled by timeout twice
C4_TimeoutExactlyOnce ==
    /\ [][\A m \in Machines : \A i \in Instances(m) :
              C4_TimerStep(m, i) => C4_Cancelled(m, i)]_vars
    /\ []C4_AtMostOnce
    /\ \A m \in Machines, i \in 1..MaxInst :
           (i <= Len(insts[m]) /\ insts[m][i].timer = "expired")
               ~> (i <= Len(insts[m]) /\ insts[m][i].timer = "stopped")

\* a stored transaction was cancelled by its timer
C4_Witness ==
    \E m \in Machines : \E i \in Instances(m) :
        /\ NotesWith(insts[m][i], IsTimeout) # {}
        /\ TimeoutCancels(m) # {}
        /\ KeyOf(insts[m][i]) \notin DOMAIN store[m]

\* C5: no state has both taken a message as valid after its deadline had passed and been
\* cancelled by that deadline
C5_ExtensionOrTimeout ==
    \A m \in Machines : \A i \in Instances(m) :
        ~(insts[m][i].late /\ NotesWith(insts[m][i], IsTimeout) # {})

\* -------------------------------------------------------------------- Key
\* the step in which the n-th waiting handler of m, of the given kind, runs under its lock
HandlerStep(m, n, kind) ==
    /\ pend[m][n].kind = kind
    /\ pend' = [pend EXCEPT ![m] = Without(@, n)]

\* C6: the peer's key is set once and kept: a Key handler that finds keyReceived true
\* leaves theirKey as it is, removes the transaction, calls
\* OnCancel(true, "Unexpected key message", unexpected-message) and sends that Cancel; and no
\* step changes theirKey or keyReceived once keyReceived is true
C6_KeyAtMostOnce ==
    /\ [][\A m \in Machines : \A n \in 1..Len(pend[m]) :
              (HandlerStep(m, n, "key") /\ insts[m][pend[m][n].index].keyReceived)
              => LET i == pend[m][n].index
                     r == insts[m][i]
                     msg == pend[m][n].msg
                 IN  /\ mapKey(msg.user, msg.txn) \notin DOMAIN store'[m]
                     /\ insts'[m][i].notes
                            = Append(r.notes, OnCancel(TRUE, <<"Unexpected key message">>,
                                                       CodeUnexpectedMessage))
                     /\ sent'[m] = Append(sent[m], SendSASVerificationCancel(
                                              r.otherDevice.UserID, r.otherDevice.DeviceID,
                                              msg.txn, <<"Unexpected key message">>,
                                              CodeUnexpectedMessage))
                     /\ insts'[m][i].sasGo = r.sasGo]_vars
    /\ [][\A m \in Machines : \A i \in Instances(m) :
              insts[m][i].keyReceived
              => /\ insts'[m][i].keyReceived
                 /\ insts'[m][i].theirKey = insts[m][i].theirKey]_vars

\* a second Key message was rejected on a state that keeps the first key
C6_Witness ==
    \E m \in Machines : \E i \in Instances(m) :
        /\ insts[m][i].keyReceived
        /\ insts[m][i].theirKey # <<>>
        /\ HasCancel(insts[m][i], TRUE, <<"Unexpected key message">>, CodeUnexpectedMessage)

\* ------------------------------------------------------ unknown transaction
\* the step in which m takes an Accept, Key or Mac event for which nothing is stored
C7_UnknownStep(m) ==
    /\ recvd'[m].n = recvd[m].n + 1
    /\ recvd'[m].last.type \in {"accept", "key", "mac"}
    /\ mapKey(recvd'[m].last.user, recvd'[m].last.txn) \notin DOMAIN store[m]

\* C7: an Accept, Key or Mac event for which nothing is stored is answered by one Cancel
\* with the unknown-transaction code to device "*" of the sender, and by nothing else: no
\* state is created or changed, no hook is called, no handler goes on
C7_UnknownTransaction ==
    [][\A m \in Machines :
           C7_UnknownStep(m)
           => /\ sent'[m] = Append(sent[m], SendSASVerificationCancel(
                                       recvd'[m].last.user, <<"*">>, recvd'[m].last.txn,
                                       <<"Unknown transaction: ">> \o recvd'[m].last.txn,
                                       CodeUnknownTransaction))
              /\ UNCHANGED <<store, insts, pend>>]_vars

\* an event for an unknown transaction was answered
C7_Witness ==
    \E m \in Machines :
        /\ recvd[m].last.type \in {"accept", "key", "mac"}
        /\ Len(sent[m]) > 0
        /\ sent[m][Len(sent[m])] = SendSASVerificationCancel(
                                       recvd[m].last.user, <<"*">>, recvd[m].last.txn,
                                       <<"Unknown transaction: ">> \o recvd[m].last.txn,
                                       CodeUnknownTransaction)

\* --------------------------------------------------------------- collision
\* the step in which NewSASVerificationWith reaches its LoadOrStore and the key is taken
C8_NewCollision(m, n) ==
    /\ HandlerStep(m, n, "new")
    /\ KeyOf(pend[m][n].verState) \in DOMAIN store[m]

\* the step in which an inbound Start the host accepts finds its key taken
C8_StartCollision(m) ==
    /\ recvd'[m].n = recvd[m].n + 1
    /\ recvd'[m].last.type = "start"
    /\ recvd'[m].resp = "AcceptRequest"
    /\ mapKey(recvd'[m].last.user, recvd'[m].last.txn) \in DOMAIN store[m]

\* the loser of the collision on transaction id txn is cancelled and the stored one stays
C8_LoserCancelled(m, txn) ==
    /\ store'[m] = store[m]
    /\ Len(sent'[m]) = Len(sent[m]) + 1
    /\ sent'[m][Len(sent'[m])].type = "cancel"
    /\ sent'[m][Len(sent'[m])].txn = txn
    /\ SubSeq(sent'[m], 1, Len(sent[m])) = sent[m]

\* C8: a creation under a key that is taken leaves the stored transaction in place and
\* sends one Cancel for the loser
C8_CollisionCancelsLoser ==
    [][\A m \in Machines :
           /\ \A n \in 1..Len(pend[m]) :
                  C8_NewCollision(m, n) => C8_LoserCancelled(m, pend[m][n].verState.txn)
           /\ C8_StartCollision(m) => C8_LoserCancelled(m, recvd'[m].last.txn)]_vars

\* ------------------------------------------------------------- negotiation
\* C9: once the responder has handled Start and the initiator has handled Accept, both hold
\* the same chosenSASMethod
C9_SameChosenMethod ==
    \A i \in Instances("X"), j \in Instances("Y") :
        (/\ insts["X"][i].initiatedByUs /\ insts["X"][i].verificationStarted
         /\ ~insts["Y"][j].initiatedByUs /\ insts["Y"][j].txn = insts["X"][i].txn)
        => insts["X"][i].chosenSASMethod = insts["Y"][j].chosenSASMethod

\* C10: when both sides of the end-to-end run have called GetVerificationSAS, both gave it
\* (initiator user, initiator device, initiator key, responder user, responder device,
\* responder key, transaction id)
C10_SameSASArguments ==
    \A i \in Instances("X"), j \in Instances("Y") :
        (insts["X"][i].sasArgs # <<>> /\ insts["Y"][j].sasArgs # <<>>)
        => /\ insts["X"][i].sasArgs = insts["Y"][j].sasArgs
           /\ insts["X"][i].sasArgs = <<UserOf("X"), DeviceOf("X"), insts["X"][i].ownKey,
                                        UserOf("Y"), DeviceOf("Y"), insts["Y"][j].ownKey,
                                        TheTxn>>

\* both sides have called GetVerificationSAS
C10_Witness ==
    \E i \in Instances("X"), j \in Instances("Y") :
        insts["X"][i].sasArgs # <<>> /\ insts["Y"][j].sasArgs # <<>>

\* ----------------------------------------------------------- inbound Cancel
\* the step in which m takes a Cancel event
C11_CancelStep(m) ==
    /\ recvd'[m].n = recvd[m].n + 1
    /\ recvd'[m].last.type = "cancel"

\* C11: handleVerificationCancel sends nothing; when it finds a transaction stored under
\* (sender user, transaction id) it calls that state's OnCancel(false, reason, code) with the
\* reason and code of the event, and otherwise calls no hook; its Delete leaves the key
\* out of the store and calls no hook
C11_CancelNeverReplies ==
    /\ [][\A m \in Machines :
              C11_CancelStep(m)
              => LET msg == pend'[m][Len(pend'[m])].msg
                     key == mapKey(msg.user, msg.txn)
                 IN  /\ sent' = sent
                     /\ store' = store
                     /\ msg.type = "cancel"
                     /\ IF key \in DOMAIN store[m]
                        THEN insts' = [insts EXCEPT ![m][store[m][key]].notes =
                                          Append(@, OnCancel(FALSE, msg.c.reason, msg.c.code))]
                        ELSE insts' = insts]_vars
    /\ [][\A m \in Machines : \A n \in 1..Len(pend[m]) :
              HandlerStep(m, n, "cancel")
              => /\ sent' = sent
                 /\ insts' = insts
                 /\ mapKey(pend[m][n].msg.user, pend[m][n].msg.txn) \notin DOMAIN store'[m]
                 /\ \A k \in DOMAIN store'[m] : k \in DOMAIN store[m] /\ store'[m][k] = store[m][k]]_vars

\* a stored transaction was cancelled by the peer: its hooks were told and it is removed
C11_Witness ==
    \E m \in Machines : \E i \in Instances(m) :
        /\ recvd[m].last.type = "cancel"
        /\ pend[m] = <<>>
        /\ HasCancel(insts[m][i], FALSE, <<"User rejected">>, CodeByUser)
        /\ KeyOf(insts[m][i]) \notin DOMAIN store[m]

\* -------------------------------------------------------------- commitment
\* the Mac messages m sent
MacsSent(m) == SentWith(m, LAMBDA o : o.type = "mac")

\* the n-th waiting handler of m holds a Key event the initiator state r can take: started,
\* no key yet, a key of the right form
C12_KeyForInitiator(m, n) ==
    LET r == insts[m][pend[m][n].index]
    IN  /\ HandlerStep(m, n, "key")
        /\ r.initiatedByUs /\ r.verificationStarted /\ ~r.keyReceived
        /\ KeyValid(pend[m][n].msg.c.key)

\* hash(K ++ canonical start payload) of the Key event equals the commitment of its state
C12_Committed(m, n) ==
    LET r == insts[m][pend[m][n].index]
    IN  Sha256(pend[m][n].msg.c.key \o r.startEventCanonical) = r.commitment

\* C12: on the initiator a Key event whose key does not hash to the stored commitment
\* removes the transaction, sends the Cancel with the commitment-mismatch code and calls
\* OnCancel(true, ...), and VerifySASMatch is not called; a state cancelled so never has
\* VerifySASMatch called nor a Mac sent for it; a Key event whose key does hash to the
\* commitment starts the SAS comparison and leaves the transaction stored
C12_CommitmentChecked ==
    /\ [][\A m \in Machines : \A n \in 1..Len(pend[m]) :
              C12_KeyForInitiator(m, n)
              => LET i == pend[m][n].index
                     r == insts[m][i]
                     msg == pend[m][n].msg
                 IN  IF C12_Committed(m, n)
                     THEN /\ insts'[m][i].sasGo = "verifying"
                          /\ insts'[m][i].notes = r.notes
                          /\ store' = store
                          /\ sent' = sent
                     ELSE /\ mapKey(msg.user, msg.txn) \notin DOMAIN store'[m]
                          /\ insts'[m][i].notes
                                 = Append(r.notes, OnCancel(TRUE, <<"Commitment mismatch">>,
                                                            CodeCommitmentMismatch))
                          /\ sent'[m] = Append(sent[m], SendSASVerificationCancel(
                                                   r.otherDevice.UserID, r.otherDevice.DeviceID,
                                                   msg.txn, <<"Commitment mismatch">>,
                                                   CodeCommitmentMismatch))
                          /\ insts'[m][i].sasGo = "none"]_vars
    /\ [](\A m \in Machines :
              /\ \A i \in Instances(m) :
                     HasCancel(insts[m][i], TRUE, <<"Commitment mismatch">>,
                               CodeCommitmentMismatch)
                     => /\ insts[m][i].sasGo = "none"
                        /\ insts[m][i].verified = <<>>
                        /\ insts[m][i].trust = 0
              /\ Cardinality(MacsSent(m))
                     = Cardinality({i \in Instances(m) : insts[m][i].verified = <<TRUE>>}))

\* an initiator state was cancelled for a key that does not match the commitment
C12_Witness ==
    \E m \in Machines : \E i \in Instances(m) :
        /\ insts[m][i].initiatedByUs
        /\ insts[m][i].commitment # <<>>
        /\ HasCancel(insts[m][i], TRUE, <<"Commitment mismatch">>, CodeCommitmentMismatch)
        /\ KeyOf(insts[m][i]) \notin DOMAIN store[m]

\* ------------------------------------------------------------ early Mac
\* C13: a Mac handler that finds keyReceived or verificationStarted false removes the
\* transaction, calls OnCancel(true, "Unexpected MAC message", unexpected-message) and sends
\* that Cancel; and a state cancelled so is never written as verified nor told OnSuccess
C13_EarlyMacCancels ==
    /\ [][\A m \in Machines : \A n \in 1..Len(pend[m]) :
              (/\ HandlerStep(m, n, "mac")
               /\ \/ ~insts[m][pend[m][n].index].keyReceived
                  \/ ~insts[m][pend[m][n].index].verificationStarted)
              => LET i == pend[m][n].index
                     r == insts[m][i]
                     msg == pend[m][n].msg
                 IN  /\ mapKey(msg.user, msg.txn) \notin DOMAIN store'[m]
                     /\ insts'[m][i].notes
                            = Append(r.notes, OnCancel(TRUE, <<"Unexpected MAC message">>,
                                                       CodeUnexpectedMessage))
                     /\ sent'[m] = Append(sent[m], SendSASVerificationCancel(
                                              r.otherDevice.UserID, r.otherDevice.DeviceID,
                                              msg.txn, <<"Unexpected MAC message">>,
                                              CodeUnexpectedMessage))]_vars
    /\ [](\A m \in Machines : \A i \in Instances(m) :
              HasCancel(insts[m][i], TRUE, <<"Unexpected MAC message">>, CodeUnexpectedMessage)
              => /\ insts[m][i].trust = 0
                 /\ NotesWith(insts[m][i], IsOnSuccess) = {})

\* ------------------------------------------------------------ second Mac
\* the states of m for the transaction of the event m takes, for which a Mac was accepted
C14_MacAccepted(m) ==
    {i \in Instances(m) :
        /\ insts[m][i].txn = recvd'[m].last.txn
        /\ insts[m][i].otherDevice.UserID = recvd'[m].last.user
        /\ insts[m][i].macGo # <<>> \/ insts[m][i].judged # <<>>}

\* the step in which m takes a Mac event and its handler ends
C14_MacStep(m) ==
    /\ recvd'[m].n = recvd[m].n + 1
    /\ recvd'[m].last.type = "mac"
    /\ pend' = pend

\* C14: a Mac event for a transaction for which a Mac was already accepted is answered by
\* the Cancel with the unexpected-message code, and the hooks of the transaction get
\* OnCancel
C14_SecondMacCancels ==
    [][\A m \in Machines :
           (C14_MacStep(m) /\ C14_MacAccepted(m) # {})
           => /\ Len(sent'[m]) > Len(sent[m])
              /\ \E k \in Len(sent[m]) + 1..Len(sent'[m]) :
                     /\ sent'[m][k].type = "cancel"
                     /\ sent'[m][k].c.code = CodeUnexpectedMessage
              /\ \E i \in C14_MacAccepted(m) :
                     Len(insts'[m][i].notes) = Len(insts[m][i].notes) + 1]_vars

\* ------------------------------------------------------- unexpected Accept
\* C15: an Accept handler that finds initiatedByUs false or verificationStarted true removes
\* the transaction, calls OnCancel(true, "Unexpected accept message", unexpected-message)
\* and sends that Cancel and nothing else, and takes nothing from the event; the commitment
\* of a state is set only while the state is initiated by us and not started
C15_UnexpectedAccept ==
    /\ [][\A m \in Machines : \A n \in 1..Len(pend[m]) :
              (/\ HandlerStep(m, n, "accept")
               /\ \/ ~insts[m][pend[m][n].index].initiatedByUs
                  \/ insts[m][pend[m][n].index].verificationStarted)
              => LET i == pend[m][n].index
                     r == insts[m][i]
                     msg == pend[m][n].msg
                 IN  /\ mapKey(msg.user, msg.txn) \notin DOMAIN store'[m]
                     /\ insts'[m][i].notes
                            = Append(r.notes, OnCancel(TRUE, <<"Unexpected accept message">>,
                                                       CodeUnexpectedMessage))
                     /\ sent'[m] = Append(sent[m], SendSASVerificationCancel(
                                              r.otherDevice.UserID, r.otherDevice.DeviceID,
                                              msg.txn, <<"Unexpected accept message">>,
                                              CodeUnexpectedMessage))
                     /\ insts'[m][i].commitment = r.commitment
                     /\ insts'[m][i].chosenSASMethod = r.chosenSASMethod
                     /\ insts'[m][i].verificationStarted = r.verificationStarted]_vars
    /\ [][\A m \in Machines : \A i \in Instances(m) :
              insts'[m][i].commitment # insts[m][i].commitment
              => insts[m][i].initiatedByUs /\ ~insts[m][i].verificationStarted]_vars

\* an Accept was rejected as unexpected
C15_Witness ==
    \E m \in Machines : \E i \in Instances(m) :
        /\ HasCancel(insts[m][i], TRUE, <<"Unexpected accept message">>, CodeUnexpectedMessage)
        /\ KeyOf(insts[m][i]) \notin DOMAIN store[m]

\* ------------------------------------------------------- every MAC compared
\* the keys m holds for key id keyID of the device of state r: its signing key for the
\* device's own key id, none for any other id
KeysHeld(r, keyID) ==
    IF keyID = NewKeyID(r.otherDevice.DeviceID) THEN {r.otherDevice.SigningKey} ELSE {}

\* whether every MAC of the judged Mac event j equals a value m can recompute for state r
EveryMACExpected(m, r, j) ==
    LET info == <<"MATRIX_KEY_VERIFICATION_MAC">> \o r.otherDevice.UserID
                    \o r.otherDevice.DeviceID \o UserOf(m) \o DeviceOf(m) \o j.msg.txn
        secret == Secret(r.ownKey, r.theirKey)
    IN  /\ j.msg.c.keys = CalculateMAC(secret, SortedJoin(DOMAIN j.msg.c.mac),
                                       info \o <<"KEY_IDS">>)
        /\ \A keyID \in DOMAIN j.msg.c.mac :
               \E key \in KeysHeld(r, keyID) :
                   j.msg.c.mac[keyID] = CalculateMAC(secret, key, info \o keyID)

\* C16: a state judged on a Mac event with a MAC that differs from the recomputed value, be
\* it the keys MAC or the MAC of any key id of the event, is cancelled with the key-mismatch
\* code and not written as verified
C16_EveryMACCompared ==
    \A m \in Machines : \A i \in Instances(m) :
        \A k \in 1..Len(insts[m][i].judged) :
            (insts[m][i].judged[k].matched
             /\ ~EveryMACExpected(m, insts[m][i], insts[m][i].judged[k]))
            => /\ insts[m][i].trust = 0
               /\ \E n \in 1..Len(insts[m][i].notes) :
                      /\ insts[m][i].notes[n].hook = "OnCancel"
                      /\ insts[m][i].notes[n].code = CodeKeyMismatch

\* -------------------------------------------- CancelSASVerification and timer
\* the cancellations of state r by CancelSASVerification and by its timer
LocalCancels(r) ==
    NotesWith(r, LAMBDA n : \/ IsTimeout(n)
                            \/ \E reason \in UserReasons : n = OnCancel(TRUE, reason, CodeByUser))

\* the Cancel messages m sent with the timeout code or with the by-user code and the reason
\* given to CancelSASVerification
LocalCancelsSent(m) ==
    SentWith(m, LAMBDA o : /\ o.type = "cancel"
                           /\ \/ o.c.code = CodeTimeout
                              \/ o.c.code = CodeByUser /\ o.c.reason \in UserReasons)

\* C17: a state is cancelled by CancelSASVerification or by its timer at most once, never by
\* both, and m sends one Cancel for each such cancellation
C17_UserCancelOrTimeout ==
    \A m \in Active :
        /\ \A i \in Instances(m) : Cardinality(LocalCancels(insts[m][i])) <= 1
        /\ Cardinality(LocalCancelsSent(m))
               = Cardinality({i \in Instances(m) : LocalCancels(insts[m][i]) # {}})

\* C18: CancelSASVerification(user, txn, reason) with nothing stored under (user, txn) ends
\* there with ErrUnknownTransaction: no message, no hook, the store as it was, nothing left
\* to run; with a transaction stored it goes on with that state, and under its lock leaves the
\* key out of the store, sends the Cancel with the by-user code and the given reason to the
\* peer device and calls OnCancel(true, reason, by-user)
C18_CancelSASVerification ==
    /\ [][\A m \in Machines : \A t \in Txns, reason \in UserReasons :
              CancelSASVerification(m, UserOf(Peer(m)), t, reason)
              => LET key == mapKey(UserOf(Peer(m)), t)
                 IN  /\ UNCHANGED <<store, sent, insts>>
                     /\ IF key \in DOMAIN store[m]
                        THEN /\ Len(pend'[m]) = Len(pend[m]) + 1
                             /\ pend'[m][Len(pend'[m])].kind = "usercancel"
                             /\ pend'[m][Len(pend'[m])].index = store[m][key]
                        ELSE pend' = pend]_vars
    /\ [][\A m \in Machines : \A n \in 1..Len(pend[m]) :
              HandlerStep(m, n, "usercancel")
              => LET i == pend[m][n].index
                     r == insts[m][i]
                     msg == pend[m][n].msg
                 IN  /\ mapKey(msg.user, msg.txn) \notin DOMAIN store'[m]
                     /\ \A k \in DOMAIN store[m] \ {mapKey(msg.user, msg.txn)} :
                            k \in DOMAIN store'[m] /\ store'[m][k] = store[m][k]
                     /\ insts'[m][i].notes
                            = Append(r.notes, OnCancel(TRUE, msg.c.reason, CodeByUser))
                     /\ sent'[m] = Append(sent[m], SendSASVerificationCancel(
                                              r.otherDevice.UserID, r.otherDevice.DeviceID,
                                              msg.txn, msg.c.reason, CodeByUser))]_vars

\* the host cancelled a stored transaction: it is gone, its hooks were told and the one
\* message after the Accept is the Cancel with the by-user code
C18_Witness ==
    \E m \in Machines : \E i \in Instances(m) : \E reason \in UserReasons :
        /\ calls[m] = 1
        /\ pend[m] = <<>>
        /\ insts[m][i].notes = <<OnCancel(TRUE, reason, CodeByUser)>>
        /\ KeyOf(insts[m][i]) \notin DOMAIN store[m]
        /\ sent[m][Len(sent[m])] = SendSASVerificationCancel(
                                       insts[m][i].otherDevice.UserID,
                                       insts[m][i].otherDevice.DeviceID,
                                       insts[m][i].txn, reason, CodeByUser)

\* ------------------------------------------------------------ inbound Request
\* message o is a Cancel with the given code for the device and transaction of request msg
C19_CancelFor(o, msg, code) ==
    /\ o.type = "cancel" /\ o.c.code = code
    /\ o.to = msg.user /\ o.dev = msg.c.from_device /\ o.txn = msg.c.transaction_id

\* the step of handleVerificationRequest for a request that lists SAS and that the host
\* accepts: the Start goes to the requesting device under the request's transaction id and
\* the initiator state (initiatedByUs, not started) is on its way to the store
C19_Accepted(m, msg) ==
    LET o == sent'[m][Len(sent'[m])]
        h == pend'[m][Len(pend'[m])]
    IN  /\ Len(sent'[m]) = Len(sent[m]) + 1 /\ SubSeq(sent'[m], 1, Len(sent[m])) = sent[m]
        /\ o.type = "start" /\ o.to = msg.user /\ o.dev = msg.c.from_device
        /\ o.txn = msg.c.transaction_id
        /\ Len(pend'[m]) = Len(pend[m]) + 1
        /\ h.kind = "new"
        /\ h.verState.txn = msg.c.transaction_id
        /\ h.verState.initiatedByUs /\ ~h.verState.verificationStarted

\* the step in which the state built for an accepted request reaches the store: it is
\* stored as a new transaction under (peer user, transaction id of the request)
C19_Stored(m, n) ==
    LET verState == pend[m][n].verState
        key == mapKey(verState.otherDevice.UserID, verState.txn)
    IN  /\ key \in DOMAIN store'[m]
        /\ store'[m][key] = Len(insts[m]) + 1
        /\ Len(insts'[m]) = Len(insts[m]) + 1
        /\ insts'[m][store'[m][key]].txn = verState.txn
        /\ insts'[m][store'[m][key]].initiatedByUs
        /\ ~insts'[m][store'[m][key]].verificationStarted

\* what handleVerificationRequest itself does with a request, by the host's answer
C19_Answer ==
    [][\A m \in Machines : \A msg \in EnvRequests(m), resp \in Responses :
          handleVerificationRequest(m, msg, resp)
          => /\ UNCHANGED <<store, insts>>
             /\ IF ~Supports(msg.c.methods, "m.sas.v1")
                THEN /\ Len(sent'[m]) = Len(sent[m]) + 1
                     /\ C19_CancelFor(sent'[m][Len(sent'[m])], msg, CodeUnknownMethod)
                     /\ pend' = pend
                     /\ recvd'[m].resp = ""
                ELSE IF resp = "AcceptRequest" THEN C19_Accepted(m, msg)
                ELSE IF resp = "RejectRequest"
                THEN /\ Len(sent'[m]) = Len(sent[m]) + 1
                     /\ C19_CancelFor(sent'[m][Len(sent'[m])], msg, CodeByUser)
                     /\ pend' = pend
                ELSE UNCHANGED <<sent, pend>>]_vars

\* C19: a Request that lists SAS ends, by the host's answer, in one of: Accept, a new
\* initiator transaction stored under the request's transaction id and a Start sent to the
\* requesting device; Reject, a Cancel with the by-user code and no state; Ignore, nothing. A
\* Request that does not list SAS gets a Cancel with the unknown-method code, the host not asked
C19_RequestAnswered ==
    /\ C19_Answer
    /\ [][\A m \in Machines : \A n \in 1..Len(pend[m]) :
              (HandlerStep(m, n, "new") /\ calls[m] = 0) => C19_Stored(m, n)]_vars

\* ============================================================ inbound Start
\* The checks of an inbound Start: machine X, whose host's hooks may or may not list decimal,
\* takes start events that fail one of the checks of handleVerificationStart or none.

\* the lists hooks.VerificationMethods() gives in SpecStart
StartHooks == {<<SASEmoji>>, <<SASEmoji, SASDecimal>>}

InitStart ==
    /\ InitCommon
    /\ \E l \in StartHooks : methods = [m \in Machines |-> IF m = "X" THEN l ELSE <<SASDecimal>>]
    /\ held = [m \in Machines |-> SigningKeyOf(Peer(m))]

\* the start events of the peer: well-formed with one of three SAS lists, or with one field
\* that handleVerificationStart does not take
StartEvents(m) ==
    LET good(t, l) == StartContent(Peer(m), t, l)
    IN  UNION {{Event(m, "start", t, c) : c \in UNION {
            {good(t, l) : l \in {<<SASDecimal>>, <<SASEmoji, SASDecimal>>, <<SASEmoji>>}},
            {[good(t, <<SASDecimal>>) EXCEPT !.method = "m.qr_code.show.v1"],
             [good(t, <<SASDecimal>>) EXCEPT !.key_agreement_protocols = <<"curve25519">>],
             [good(t, <<SASDecimal>>) EXCEPT !.hashes = <<>>],
             [good(t, <<SASDecimal>>) EXCEPT !.message_authentication_codes = <<"hmac-sha256">>]}}} :
               t \in Txns}

NextStart ==
    \E m \in Active :
        \/ \E msg \in StartEvents(m), resp \in Responses :
               recvd[m].n < MaxInbound /\ handleVerificationStart(m, msg, resp)
        \/ \E i \in 1..Len(insts[m]) : TimerExpire(m, i)
        \/ \E i \in 1..Len(insts[m]) : timeoutAfter(m, i)

SpecStart == InitStart /\ [][NextStart]_vars

\* start content c fails one of the five checks made before the host is asked
C20_Unsupported(c) ==
    \/ c.method # "m.sas.v1"
    \/ \A j \in 1..Len(c.key_agreement_protocols) : c.key_agreement_protocols[j] # "curve25519-hkdf-sha256"
    \/ \A j \in 1..Len(c.hashes) : c.hashes[j] # "sha256"
    \/ \A j \in 1..Len(c.message_authentication_codes) : c.message_authentication_codes[j] # "hkdf-hmac-sha256"
    \/ \A j \in 1..Len(c.short_authentication_string) : c.short_authentication_string[j] # SASDecimal

\* start content c lists no SAS method of the hooks of m
C20_NoCommonMethod(m, c) ==
    \A j \in 1..Len(methods[m]) : \A k \in 1..Len(c.short_authentication_string) :
        methods[m][j] # c.short_authentication_string[k]

\* the step sends one Cancel to the device of the start event msg and nothing else, stores no
\* transaction and creates no state (so no timer is armed)
C20_OnlyCancelled(m, msg) ==
    /\ Len(sent'[m]) = Len(sent[m]) + 1
    /\ SubSeq(sent'[m], 1, Len(sent[m])) = sent[m]
    /\ sent'[m][Len(sent'[m])].type = "cancel"
    /\ sent'[m][Len(sent'[m])].to = msg.user
    /\ sent'[m][Len(sent'[m])].dev = msg.c.from_device
    /\ sent'[m][Len(sent'[m])].txn = msg.c.transaction_id
    /\ UNCHANGED <<store, insts, pend>>

C21_Sends(m, msg, type) ==
    /\ Len(sent'[m]) = Len(sent[m]) + 1
    /\ SubSeq(sent'[m], 1, Len(sent[m])) = sent[m]
    /\ sent'[m][Len(sent'[m])].type = type
    /\ sent'[m][Len(sent'[m])].to = msg.user
    /\ sent'[m][Len(sent'[m])].dev = msg.c.from_device
    /\ sent'[m][Len(sent'[m])].txn = msg.c.transaction_id

\* the step stores a new responder state under the key of start event msg, its timer armed
C21_StoresResponder(m, msg) ==
    LET key == mapKey(msg.user, msg.c.transaction_id)
        i == Len(insts[m]) + 1
    IN  /\ store'[m] = Store(store[m], key, i)
        /\ Len(insts'[m]) = i
        /\ SubSeq(insts'[m], 1, Len(insts[m])) = insts[m]
        /\ insts'[m][i].txn = msg.c.transaction_id
        /\ ~insts'[m][i].initiatedByUs
        /\ insts'[m][i].verificationStarted
        /\ ~insts'[m][i].keyReceived
        /\ insts'[m][i].timer = "armed"

C22_Rejected(m, i) == i \in Instances(m) /\ \E k \in 1..Len(insts[m][i].verified) : ~insts[m][i].verified[k]

\* state i of m was cancelled with the SAS-mismatch code: OnCancel(true, "SAS do not match",
\* SAS-mismatch) was called and that Cancel was sent to the peer device
C22_MismatchCancelled(m, i) ==
    /\ i \in Instances(m)
    /\ HasCancel(insts[m][i], TRUE, <<"SAS do not match">>, CodeSASMismatch)
    /\ \E k \in 1..Len(sent[m]) :
           sent[m][k] = SendSASVerificationCancel(insts[m][i].otherDevice.UserID,
                            insts[m][i].otherDevice.DeviceID, insts[m][i].txn,
                            <<"SAS do not match">>, CodeSASMismatch)

\* the step in which m sends a Mac is one in which VerifySASMatch returned true for a state
\* of m for which it had not returned before
C22_MacOnlyOnMatch ==
    [][\A m \in Machines :
          MacsSent(m)' # MacsSent(m)
          => \E i \in Instances(m) : /\ insts[m][i].verified = <<>>
                                     /\ insts'[m][i].verified = <<TRUE>>]_vars

\* C22: when VerifySASMatch returns false for a transaction, this side sends no Mac for it
\* and the transaction is eventually cancelled with the SAS-mismatch code: the Cancel sent
\* to the peer and OnCancel(true, "SAS do not match", SAS-mismatch) called
C22_MismatchCancels ==
    /\ C22_MacOnlyOnMatch
    /\ \A m \in Active : \A i \in 1..MaxInst :
           C22_Rejected(m, i) ~> C22_MismatchCancelled(m, i)

\* -------------------------------------------------------------- our own Mac
\* the Mac m sends for state r: the MACs of its own signing key and key id list, under the
\* secret of r, to the peer device of r
C23_OwnMac(m, r) ==
    SendSASVerificationMAC(m, r.otherDevice.UserID, r.otherDevice.DeviceID, r.txn,
                           Secret(r.ownKey, r.theirKey))

\* C23: m sends its Mac for a transaction at most once, and only in the step in which
\* VerifySASMatch returns true for a state whose peer Key was accepted; in that step it is
\* sent whether or not the peer's Mac has arrived
C23_MacOnceAfterMatch ==
    /\ [][\A m \in Machines :
              MacsSent(m)' # MacsSent(m)
              => \E i \in Instances(m) :
                     /\ insts[m][i].verified = <<>> /\ insts'[m][i].verified = <<TRUE>>
                     /\ insts[m][i].keyReceived
                     /\ sent'[m] = Append(sent[m], C23_OwnMac(m, insts[m][i]))]_vars
    /\ [][\A m \in Machines : \A i \in Instances(m) :
              (insts'[m][i].verified # insts[m][i].verified /\ insts'[m][i].verified[1])
              => sent'[m] = Append(sent[m], C23_OwnMac(m, insts[m][i]))]_vars
    /\ [](\A m \in Machines :
              /\ \A i \in Instances(m) : Len(insts[m][i].verified) <= 1
              /\ Cardinality(MacsSent(m))
                     = Cardinality({i \in Instances(m) : insts[m][i].verified = <<TRUE>>}))

\* VerifySASMatch returned true after the peer's Mac had arrived, and the Mac was sent
C23_Witness ==
    \E m \in Active : \E i \in Instances(m) :
        /\ insts[m][i].verified = <<TRUE>>
        /\ insts[m][i].sasMatched = <<TRUE>>
        /\ Len(insts[m][i].macGo) = 1
        /\ sent[m][Len(sent[m])] = C23_OwnMac(m, insts[m][i])

\* --------------------------------------------------- removal from the store
\* state i of m, which was stored, is no longer the state stored under its key
C24_Gone(m, i) ==
    \/ KeyOf(insts[m][i]) \notin DOMAIN store[m]
    \/ store[m][KeyOf(insts[m][i])] # i

\* state r has its outcome: the device written as verified and OnSuccess called, or
\* OnCancel called (by us, by the peer or by timeout)
C24_Terminal(r) == \E k \in 1..Len(r.notes) : r.notes[k].hook \in {"OnSuccess", "OnCancel"}

\* C24: a transaction that was stored and is no longer in the store has been verified,
\* cancelled or timed out; none is out of the store with no outcome, still waiting for the
\* local SAS confirmation or for the judgement of the peer's Mac
C24_GoneOnlyWhenTerminal ==
    \A m \in Active : \A i \in Instances(m) : C24_Gone(m, i) => C24_Terminal(insts[m][i])

\* ------------------------------------------------------------- send errors
\* the messages of state i of m whose send had returned an error before the step
C25_UnsentBefore(m, i) == IF i <= Len(insts[m]) THEN insts[m][i].unsent ELSE <<>>

\* the hook calls of state i of m before the step
C25_NotesBefore(m, i) == IF i <= Len(insts[m]) THEN insts[m][i].notes ELSE <<>>

\* state i of m is the state stored under its key before the step, or the step creates it
C25_StoredBefore(m, i) ==
    \/ i > Len(insts[m])
    \/ /\ KeyOf(insts[m][i]) \in DOMAIN store[m]
       /\ store[m][KeyOf(insts[m][i])] = i

\* C25: a send of an Accept or a Key that returns an error does not cancel the transaction:
\* the step removes nothing from the store, so the transaction stays stored, no Cancel (no
\* message at all) is sent and no hook is called; and no later handler of the transaction
\* sends a message of the type whose send failed
C25_SendErrorKeepsTransaction ==
    /\ [][\A m \in Machines : \A i \in 1..Len(insts'[m]) :
              insts'[m][i].unsent # C25_UnsentBefore(m, i)
              => /\ Len(insts'[m][i].unsent) = Len(C25_UnsentBefore(m, i)) + 1
                 /\ insts'[m][i].unsent[Len(insts'[m][i].unsent)].type \in {"accept", "key"}
                 /\ \A key \in DOMAIN store[m] :
                        key \in DOMAIN store'[m] /\ store'[m][key] = store[m][key]
                 /\ C25_StoredBefore(m, i)
                        => /\ KeyOf(insts'[m][i]) \in DOMAIN store'[m]
                           /\ store'[m][KeyOf(insts'[m][i])] = i
                 /\ sent' = sent
                 /\ insts'[m][i].notes = C25_NotesBefore(m, i)]_vars
    /\ [][\A m \in Machines : \A n \in 1..Len(pend[m]) :
              (HandlerStep(m, n, "accept") \/ HandlerStep(m, n, "key"))
              => LET unsent == insts[m][pend[m][n].index].unsent
                 IN  \A k \in 1..Len(unsent) : \A j \in (Len(sent[m]) + 1)..Len(sent'[m]) :
                         sent'[m][j].type # unsent[k].type]_vars

\* the send of the responder's Key returned an error: the transaction is stored with the
\* peer's key taken, nothing was sent after the Accept and no hook was called
C25_Witness ==
    \E m \in Active : \E i \in Instances(m) :
        /\ Len(insts[m][i].unsent) = 1
        /\ insts[m][i].unsent[1].type = "key"
        /\ insts[m][i].keyReceived
        /\ KeyOf(insts[m][i]) \in DOMAIN store[m]
        /\ insts[m][i].notes = <<>>
        /\ Len(sent[m]) = 1 /\ sent[m][1].type = "accept"

\* ------------------------------------------------- the wait for the match result
\* a goroutine of handleVerificationMAC of state i of m waits for sasMatched while
\* VerifySASMatch has not yet returned
C26_MacWaits(m, i) ==
    /\ insts[m][i].macGo # <<>>
    /\ insts[m][i].sasMatched = <<>>
    /\ insts[m][i].sasGo = "verifying"

C27_Stored(m, i) ==
    /\ KeyOf(insts[m][i]) \in DOMAIN store[m]
    /\ store[m][KeyOf(insts[m][i])] = i

\* the step calls OnCancel(true, reason, code) of state i of m and sends the Cancel with the
\* same reason and code to the peer device of that state, as the one message of the step
C27_CancelledAs(m, i, reason, code) ==
    /\ insts'[m][i].notes = Append(insts[m][i].notes, OnCancel(TRUE, reason, code))
    /\ sent'[m] = Append(sent[m], SendSASVerificationCancel(insts[m][i].otherDevice.UserID,
                                      insts[m][i].otherDevice.DeviceID, insts[m][i].txn,
                                      reason, code))

\* the step is the Delete of handleVerificationCancel (the peer cancelled), or the step of
\* handleVerificationMAC that takes a Mac and hands it to its goroutine
C27_NotACancellation(m, i) ==
    \/ \E n \in 1..Len(pend[m]) : HandlerStep(m, n, "cancel")
    \/ Len(insts'[m][i].macGo) > Len(insts[m][i].macGo)

\* C27: every local cancellation of an existing transaction, the one for a sender-user
\* mismatch in getTransactionState included, removes the transaction, sends the Cancel
\* with its reason and code to the peer and calls OnCancel(true, reason, code): a step that
\* takes a stored transaction out of the store, other than on the peer's Cancel or on
\* taking a Mac, does all three, and so does every step that sends a Cancel for a transaction
\* with state or calls OnCancel(true, ...)
C27_LocalCancellation ==
    /\ [][\A m \in Machines : \A i \in Instances(m) :
              (C27_Stored(m, i) /\ ~C27_Stored(m, i)' /\ ~C27_NotACancellation(m, i))
              => \E k \in 1..Len(sent'[m]) : /\ k > Len(sent[m])
                                             /\ sent'[m][k].type = "cancel"
                                             /\ C27_CancelledAs(m, i, sent'[m][k].c.reason,
                                                                sent'[m][k].c.code)]_vars
    /\ [][\A m \in Machines : \A i \in Instances(m) :
              (/\ Len(insts'[m][i].notes) > Len(insts[m][i].notes)
               /\ insts'[m][i].notes[Len(insts'[m][i].notes)].hook = "OnCancel"
               /\ insts'[m][i].notes[Len(insts'[m][i].notes)].cancelledByUs)
              => /\ ~C27_Stored(m, i)'
                 /\ C27_CancelledAs(m, i, insts'[m][i].notes[Len(insts'[m][i].notes)].reason,
                                    insts'[m][i].notes[Len(insts'[m][i].notes)].code)]_vars

\* ------------------------------------------------ silence after cancellation
\* the hooks of r were told of a cancellation, remote or local
C28_Cancelled(r) == \E k \in 1..Len(r.notes) : r.notes[k].hook = "OnCancel"

\* the messages of the given type that m sends in the step
C28_NewlySent(m, type) ==
    {k \in (Len(sent[m]) + 1)..Len(sent'[m]) : sent'[m][k].type = type}

\* C28: a step that acts on a state whose hooks were told of a cancellation sends no Key
\* and no Mac, the step in which VerifySASMatch returns true included
C28_SilentAfterCancel ==
    [][\A m \in Machines : \A i \in Instances(m) :
           (C28_Cancelled(insts[m][i]) /\ insts'[m][i] # insts[m][i])
           => C28_NewlySent(m, "key") \cup C28_NewlySent(m, "mac") = {}]_vars

\* ------------------------------------------------- a Cancel from the peer
\* a Cancel of the peer for the transaction of state i of m has been received: the hooks
\* of i were told of it, or it is the last event m took, i being the last state made under
\* its key
C29_CancelReceived(m, i) ==
    \/ \E k \in 1..Len(insts[m][i].notes) :
           /\ insts[m][i].notes[k].hook = "OnCancel"
           /\ ~insts[m][i].notes[k].cancelledByUs
    \/ /\ \A j \in Instances(m) : KeyOf(insts[m][j]) = KeyOf(insts[m][i]) => j <= i
       /\ recvd[m].n > 0
       /\ recvd[m].last.type = "cancel"
       /\ mapKey(recvd[m].last.user, recvd[m].last.txn) = KeyOf(insts[m][i])

\* the step marks the peer device of state i of m verified or calls its OnSuccess
C29_Succeeds(m, i) ==
    \/ insts'[m][i].trust > insts[m][i].trust
    \/ Cardinality(NotesWith(insts'[m][i], IsOnSuccess))
           > Cardinality(NotesWith(insts[m][i], IsOnSuccess))

\* C29: once a Cancel of the peer has been received for a transaction, no step marks the
\* peer device verified or calls OnSuccess for it
C29_NoSuccessAfterPeerCancel ==
    [][\A m \in Machines : \A i \in Instances(m) :
           C29_CancelReceived(m, i) => ~C29_Succeeds(m, i)]_vars

\* ------------------------------------------------ one terminal notification
\* C30: the hooks get at most one terminal notification, OnSuccess or OnCancel, for each
\* transaction
C30_OneTerminalNotification ==
    \A m \in Machines : \A i \in Instances(m) : Len(insts[m][i].notes) <= 1

\* --------------------------------------------------- one write of the trust
\* C31: for one transaction TrustStateVerified is written at most once and OnSuccess is
\* called at most once, however many Mac events are handled for it
C31_TrustWrittenOnce ==
    \A m \in Machines : \A i \in Instances(m) :
        /\ insts[m][i].trust <= 1
        /\ Cardinality(NotesWith(insts[m][i], IsOnSuccess)) <= 1

\* two Mac events were taken for one transaction, their goroutines started, and the trust
\* was written
C31_Witness ==
    \E m \in Active : \E i \in Instances(m) :
        /\ insts[m][i].trust = 1
        /\ Cardinality(NotesWith(insts[m][i], IsOnSuccess)) = 1
        /\ Len(insts[m][i].macGo) + Len(insts[m][i].judged) >= 2

\* --------------------------------------------------- replies to our own Start
\* NewSASVerificationWith of m has sent the Start of a transaction with this store key and
\* has not reached its LoadOrStore
C32_StartSentNotStored(m, key) ==
    \E n \in 1..Len(pend[m]) :
        /\ pend[m][n].kind = "new"
        /\ mapKey(pend[m][n].verState.otherDevice.UserID, pend[m][n].verState.txn) = key

\* the step in which m takes an Accept or a Cancel of the peer
C32_ReplyStep(m) ==
    /\ recvd'[m].n = recvd[m].n + 1
    /\ recvd'[m].last.type \in {"accept", "cancel"}

\* C32: an Accept or Cancel that m handles after it sent the Start of the transaction finds
\* the transaction in the store
C32_ReplyFindsTransaction ==
    [][\A m \in Machines :
           (C32_ReplyStep(m)
               /\ C32_StartSentNotStored(m, mapKey(recvd'[m].last.user, recvd'[m].last.txn)))
           => mapKey(recvd'[m].last.user, recvd'[m].last.txn) \in DOMAIN store[m]]_vars

\* ------------------------------------------------ the timer of an old state
\* the step is a round of the timer goroutine of state i of m
C33_TimerRound(m, i) ==
    /\ insts[m][i].timer \in {"expired", "canceled"}
    /\ insts'[m][i].timer # insts[m][i].timer

\* C33: a round of the timer goroutine of one state leaves the store entries of the other
\* states as they are
C33_TimerSparesOthers ==
    [][\A m \in Machines : \A i \in Instances(m) :
           C33_TimerRound(m, i)
           => \A key \in DOMAIN store[m] :
                  store[m][key] # i => key \in DOMAIN store'[m] /\ store'[m][key] = store[m][key]]_vars

\* ------------------------------------------------ the responder's public key
\* the ephemeral public keys a machine can hold
C34_PubKeys == {PubKey(m, n) : m \in Machines, n \in 1..4}

\* message o carries the ephemeral public key `key` in the clear: as the key of a Key
\* message, or as the commitment of an Accept message
C34_Reveals(o, key) ==
    \/ o.type = "key" /\ o.c.key = key
    \/ o.type = "accept" /\ o.c.commitment = key

\* state i of m, a responder's, takes the initiator's Key in the step
C34_TakesKey(m, i) ==
    /\ ~insts[m][i].initiatedByUs
    /\ ~insts[m][i].keyReceived
    /\ insts'[m][i].keyReceived
    /\ insts'[m][i].theirKey # <<>>

\* C34: a message that carries an ephemeral public key of m in the clear is a Key message,
\* sent by a step of the initiator's state holding that key, or by the step in which the
\* responder's state holding that key takes the initiator's Key; an Accept carries the
\* commitment only
C34_KeyAfterInitiatorKey ==
    [][\A m \in Machines : \A k \in (Len(sent[m]) + 1)..Len(sent'[m]) :
           \A key \in C34_PubKeys :
               C34_Reveals(sent'[m][k], key)
               => /\ sent'[m][k].type = "key"
                  /\ \E i \in Instances(m) :
                         /\ insts[m][i].ownKey = key
                         /\ insts[m][i].txn = sent'[m][k].txn
                         /\ insts'[m][i] # insts[m][i]
                         /\ insts[m][i].initiatedByUs \/ C34_TakesKey(m, i)]_vars

\* a responder has sent its Accept, taken the initiator's Key and sent its own Key
C34_Witness ==
    \E m \in Active : \E i \in Instances(m) :
        /\ ~insts[m][i].initiatedByUs
        /\ insts[m][i].keyReceived
        /\ \E a, k \in 1..Len(sent[m]) :
               /\ a < k
               /\ sent[m][a].type = "accept"
               /\ sent[m][a].c.commitment[1] = "sha256"
               /\ C34_Reveals(sent[m][k], insts[m][i].ownKey)

\* ------------------------------------------------ the content of the Accept
\* the step stores a new responder state and sends one message, an Accept
C35_AcceptStep(m) ==
    /\ Len(insts'[m]) = Len(insts[m]) + 1
    /\ ~insts'[m][Len(insts'[m])].initiatedByUs
    /\ Len(sent'[m]) = Len(sent[m]) + 1
    /\ sent'[m][Len(sent'[m])].type = "accept"

\* the Accept of the step lists the methods of the hooks that start event msg lists
C35_NegotiatedMethods(m, msg) ==
    /\ sent'[m][Len(sent'[m])].c.short_authentication_string
           = commonSASMethods(methods[m], msg.c.short_authentication_string)
    /\ sent'[m][Len(sent'[m])].c.short_authentication_string # <<>>

\* C35 as stated: the Accept sent on accepting a Start carries the responder's ephemeral
\* public key and the negotiated methods
C35_AcceptCarriesKey ==
    [][\A m \in Machines : \A msg \in StartEvents(m), resp \in Responses :
           (handleVerificationStart(m, msg, resp) /\ C35_AcceptStep(m))
           => /\ C34_Reveals(sent'[m][Len(sent'[m])], insts'[m][Len(insts'[m])].ownKey)
              /\ C35_NegotiatedMethods(m, msg)]_vars

\* C35 amended: the Accept sent on accepting a Start carries the commitment, the hash of
\* the responder's ephemeral public key followed by the canonical form of the Start, and
\* the negotiated methods; it does not carry the key itself
C35_AcceptCarriesCommitment ==
    [][\A m \in Machines : \A msg \in StartEvents(m), resp \in Responses :
           (handleVerificationStart(m, msg, resp) /\ C35_AcceptStep(m))
           => /\ sent'[m][Len(sent'[m])].c.commitment
                     = Sha256(insts'[m][Len(insts'[m])].ownKey \o CanonicalStart(msg.c))
              /\ \A key \in C34_PubKeys : ~C34_Reveals(sent'[m][Len(sent'[m])], key)
              /\ C35_NegotiatedMethods(m, msg)]_vars

\* a Start listing both methods was accepted: the Accept sent names both and commits to
\* the key of the state stored
C35_Witness ==
    \E m \in Active : \E i \in Instances(m) : \E k \in 1..Len(sent[m]) :
        /\ ~insts[m][i].initiatedByUs
        /\ sent[m][k].type = "accept"
        /\ sent[m][k].txn = insts[m][i].txn
        /\ sent[m][k].c.short_authentication_string = <<SASEmoji, SASDecimal>>
        /\ sent[m][k].c.commitment[1] = "sha256"
        /\ SubSeq(sent[m][k].c.commitment[2], 1, Len(insts[m][i].ownKey)) = insts[m][i].ownKey

\* --------------------------------------------- the order of outbound messages
\* among the first k messages m sent there is one of the given type for the transaction
\* of state r
C36_SentBefore(m, r, k, type) ==
    \E j \in 1..(k - 1) : sent'[m][j].type = type /\ sent'[m][j].txn = r.txn

\* among the first k messages m sent there is the Key of state r
C36_OwnKeyBefore(m, r, k) ==
    \E j \in 1..(k - 1) :
        /\ sent'[m][j].type = "key"
        /\ sent'[m][j].txn = r.txn
        /\ sent'[m][j].c.key = r.ownKey

\* the state of m that the step acts on, for a message of its transaction
C36_Acting(m, i, o) ==
    /\ insts'[m][i] # insts[m][i]
    /\ insts[m][i].txn = o.txn

\* the step sends the Key of state i of m in its turn: the initiator's when it takes a
\* valid Accept, after its Start; the responder's when it takes the initiator's Key, after
\* its Accept; in both cases before any Mac of the state
C36_KeyInTurn(m, i, k) ==
    /\ insts[m][i].verified = <<>>
    /\ IF insts[m][i].initiatedByUs
       THEN /\ ~insts[m][i].verificationStarted /\ insts'[m][i].verificationStarted
            /\ \E n \in 1..Len(pend[m]) : HandlerStep(m, n, "accept")
            /\ C36_SentBefore(m, insts[m][i], k, "start")
       ELSE /\ C34_TakesKey(m, i)
            /\ C36_SentBefore(m, insts[m][i], k, "accept")

\* C36: the outbound messages of one transaction follow the order of the protocol: a Key
\* is sent by the initiator only on a valid Accept, after its Start, and by the responder
\* only on the initiator's Key, after its Accept; a Mac is sent only after the Key of the
\* same state
C36_ProtocolOrder ==
    [][\A m \in Machines : \A k \in (Len(sent[m]) + 1)..Len(sent'[m]) :
           /\ sent'[m][k].type = "key"
              => \E i \in Instances(m) : C36_Acting(m, i, sent'[m][k]) /\ C36_KeyInTurn(m, i, k)
           /\ sent'[m][k].type = "mac"
              => \E i \in Instances(m) :
                     /\ C36_Acting(m, i, sent'[m][k])
                     /\ insts[m][i].keyReceived
                     /\ C36_OwnKeyBefore(m, insts[m][i], k)]_vars

\* state r had a message of the given type to send and its send returned an error
C36_SendFailed(r, type) == \E u \in 1..Len(r.unsent) : r.unsent[u].type = type

\* C36_KeyInTurn, a first message whose send failed counting as sent
C36_KeyInTurnOfSends(m, i, k) ==
    /\ insts[m][i].verified = <<>>
    /\ IF insts[m][i].initiatedByUs
       THEN /\ ~insts[m][i].verificationStarted /\ insts'[m][i].verificationStarted
            /\ \E n \in 1..Len(pend[m]) : HandlerStep(m, n, "accept")
            /\ C36_SentBefore(m, insts[m][i], k, "start")
       ELSE /\ C34_TakesKey(m, i)
            /\ C36_SentBefore(m, insts[m][i], k, "accept")
                   \/ C36_SendFailed(insts[m][i], "accept")

\* C36 amended: the order of the protocol holds for the sends the handlers make, a send
\* that returned an error included: a Key is sent by the initiator only on a valid Accept,
\* after its Start, and by the responder only on the initiator's Key, after its Accept was
\* sent or failed to be sent; a Mac is sent only after the Key of the same state was sent
\* or failed to be sent
C36_OrderOfSends ==
    [][\A m \in Machines : \A k \in (Len(sent[m]) + 1)..Len(sent'[m]) :
           /\ sent'[m][k].type = "key"
              => \E i \in Instances(m) :
                     C36_Acting(m, i, sent'[m][k]) /\ C36_KeyInTurnOfSends(m, i, k)
           /\ sent'[m][k].type = "mac"
              => \E i \in Instances(m) :
                     /\ C36_Acting(m, i, sent'[m][k])
                     /\ insts[m][i].keyReceived
                     /\ C36_OwnKeyBefore(m, insts[m][i], k)
                            \/ C36_SendFailed(insts[m][i], "key")]_vars

\* a state of m has sent its first message, its Key and its Mac, in this order

C36_Witness ==
    \E m \in Active : \E i \in Instances(m) : \E a, k, c \in 1..Len(sent[m]) :
        /\ a < k /\ k < c
        /\ sent[m][a].type = IF insts[m][i].initiatedByUs THEN "start" ELSE "accept"
        /\ sent[m][k] = SendSASVerificationKey(insts[m][i].otherDevice.UserID,
                                               insts[m][i].otherDevice.DeviceID,
                                               insts[m][i].txn, insts[m][i].ownKey)
        /\ sent[m][c] = C23_OwnMac(m, insts[m][i])

\* ------------------------------------------------------ the result signal
\* C37: the channel sasMatched of a state is written at most once and read at most once,
\* what was written is in the channel or was read, and the channel is empty whenever the
\* goroutine that writes it is about to write
C37_SignalOnce ==
    \A m \in Machines : \A i \in Instances(m) :
        /\ Len(insts[m][i].verified) <= 1
        /\ Len(insts[m][i].judged) <= 1
        /\ Len(insts[m][i].sasMatched) + Len(insts[m][i].judged) = Len(insts[m][i].verified)
        /\ insts[m][i].sasGo = "verifying" => insts[m][i].sasMatched = <<>>

\* the result was written once and read once, and the goroutine of a second Mac still
\* waits for the channel
C37_Witness ==
    \E m \in Active : \E i \in Instances(m) :
        /\ Len(insts[m][i].verified) = 1
        /\ Len(insts[m][i].judged) = 1
        /\ insts[m][i].sasMatched = <<>>
        /\ Len(insts[m][i].macGo) >= 1

\* ------------------------------------------------------- every transaction ends
\* C38: under fair scheduling every transaction that was stored is eventually out of the
\* store with its hooks told of the outcome, OnSuccess or OnCancel
C38_EveryTransactionEnds ==
    \A m \in Active : \A i \in 1..MaxInst :
        (i <= Len(insts[m]))
            ~> (i <= Len(insts[m]) /\ C24_Gone(m, i) /\ C24_Terminal(insts[m][i]))

\* ------------------------------------------------- other transactions untouched
\* the (user, transaction id) pairs of the transactions and events of m
C39_Pairs(m) == {UserOf(Peer(m)), PortUser(m)} \X FrameTxns

\* the (user, transaction id) pair of state r
C39_PairOf(r) == <<r.otherDevice.UserID, r.txn>>

\* the step leaves the states of m that are not of pair p as they are, stored or not as
\* before, makes no state of another pair and sends no message under another pair
C39_Confined(m, p) ==
    /\ \A i \in Instances(m) :
           C39_PairOf(insts[m][i]) # p
           => insts'[m][i] = insts[m][i] /\ (C27_Stored(m, i) <=> C27_Stored(m, i)')
    /\ \A i \in (Len(insts[m]) + 1)..Len(insts'[m]) : C39_PairOf(insts'[m][i]) = p
    /\ \A k \in (Len(sent[m]) + 1)..Len(sent'[m]) : <<sent'[m][k].to, sent'[m][k].txn>> = p

\* C39: every step of m (an inbound message, a timer expiry, a local cancellation) is
\* confined to the transaction of one (user, transaction id) pair; and a
\* NewSASVerificationWith whose Start cannot be sent leaves the store unchanged and arms
\* no timer
C39_OtherTransactionsUnchanged ==
    /\ [][\A m \in Machines : \E p \in C39_Pairs(m) : C39_Confined(m, p)]_vars
    /\ [][\A m \in Machines : \A t \in FrameTxns :
              NewSASVerificationWithSendFails(m, t) => UNCHANGED <<store, insts>>]_vars

====
